---- MODULE Spec2Model ----
(***************************************************************************)
(* Verification model of the PF2e AI Combat Assistant (scripts/main.js):   *)
(* the turn state machine kept in actor flags (actionsRemaining,           *)
(* currentMAP, history), the chat-button handlers that drive it, the       *)
(* suggestion request cycle, and the cost arbiter.                         *)
(*                                                                         *)
(* JavaScript values are modelled as tagged records so that a number and   *)
(* a string are never equal and typeof can be computed:                    *)
(*   Num(n)  a number,  Str(s) a string (a tuple of one-character          *)
(*   strings), Null, NaN.                                                  *)
(*                                                                         *)
(* An async handler is a task that runs atomically between two awaits.  A  *)
(* flag write takes effect at the step that issues it, and the three       *)
(* unsetFlag calls of clearAITurnFlags are one step.  Chat cards are kept  *)
(* only while their buttons are enabled.                                   *)
(***************************************************************************)
EXTENDS Integers, Sequences, FiniteSets, Bags, TLC

(***************************************************************************)
(* JavaScript values                                                       *)
(***************************************************************************)
Num(n) == [t |-> "num", n |-> n]
Str(s) == [t |-> "str", s |-> s]
Null == [t |-> "null"]
NaN == [t |-> "nan"]
Unset == [t |-> "unset"]

IsString(v) == v.t = "str"

StrR == Str(<<"R">>)
StrF == Str(<<"F">>)
Range(m, n) == Str(<<m, " ", "t", "o", " ", n>>)

Digits == {"0", "1", "2", "3", "4", "5", "6", "7", "8", "9"}
DigitVal(c) ==
    CASE c = "0" -> 0 [] c = "1" -> 1 [] c = "2" -> 2 [] c = "3" -> 3
      [] c = "4" -> 4 [] c = "5" -> 5 [] c = "6" -> 6 [] c = "7" -> 7
      [] c = "8" -> 8 [] c = "9" -> 9

Max(a, b) == IF a >= b THEN a ELSE b

\* Number of leading characters of s that belong to the set cs.
RECURSIVE LeadingRun(_, _)
LeadingRun(s, cs) ==
    IF s = <<>> \/ Head(s) \notin cs THEN 0 ELSE 1 + LeadingRun(Tail(s), cs)

\* Value of a tuple of digits read as a decimal numeral.
RECURSIVE DecimalValue(_)
DecimalValue(ds) ==
    IF ds = <<>> THEN 0
    ELSE 10 * DecimalValue(SubSeq(ds, 1, Len(ds) - 1)) + DigitVal(ds[Len(ds)])

Drop(s, k) == SubSeq(s, k + 1, Len(s))

\* String.prototype.includes
Includes(s, sub) ==
    \E i \in 1..(Len(s) - Len(sub) + 1) : SubSeq(s, i, i + Len(sub) - 1) = sub

\* parseInt(v, 10): a number is first converted to its decimal string, so an
\* integer comes back unchanged; a string is read after leading white space up
\* to the first non-digit; everything else (null, 'R', '') is NaN.
ParseIntChars(s) ==
    LET body == Drop(s, LeadingRun(s, {" "}))
        k == LeadingRun(body, Digits)
    IN IF k = 0 THEN NaN ELSE Num(DecimalValue(SubSeq(body, 1, k)))

ParseInt(v) ==
    CASE v.t = "num" -> v
      [] v.t = "str" -> ParseIntChars(v.s)
      [] OTHER -> NaN

\* actualActionCost.match(/^(\d+)\s+to/)?.[1] parsed with parseInt, or NaN when
\* the pattern does not match.
MinCostMatch(s) ==
    LET k == LeadingRun(s, Digits)
        rest == Drop(s, k)
        w == LeadingRun(rest, {" "})
        tail == Drop(rest, w)
    IN IF k > 0 /\ w > 0 /\ Len(tail) >= 2 /\ SubSeq(tail, 1, 2) = <<"t", "o">>
       THEN Num(DecimalValue(SubSeq(s, 1, k)))
       ELSE NaN

InRange1to3(v) == v # NaN /\ v.n >= 1 /\ v.n <= 3

\* Index of the first occurrence of sub in s (String.prototype.indexOf, from 1),
\* or 0 when there is none.
IndexOf(s, sub) ==
    IF Includes(s, sub)
    THEN CHOOSE i \in 1..(Len(s) - Len(sub) + 1) :
             /\ SubSeq(s, i, i + Len(sub) - 1) = sub
             /\ \A j \in 1..(i - 1) : SubSeq(s, j, j + Len(sub) - 1) # sub
    ELSE 0

\* String.prototype.split with a non-empty separator.
RECURSIVE Split(_, _)
Split(s, sep) ==
    IF ~Includes(s, sep) THEN <<s>>
    ELSE <<SubSeq(s, 1, IndexOf(s, sep) - 1)>>
             \o Split(Drop(s, IndexOf(s, sep) - 1 + Len(sep)), sep)

(***************************************************************************)
(* formatParsedCostToDisplay(parsedCost)                                   *)
(***************************************************************************)
FormatParsedCostToDisplay(cost) ==
    IF cost = StrF \/ cost = Num(0) THEN Str(<<"(", "F", ")">>)
    ELSE IF cost = StrR THEN Str(<<"(", "R", ")">>)
    ELSE IF cost = Num(1) THEN Str(<<"(", "1", "a", ")">>)
    ELSE IF cost = Num(2) THEN Str(<<"(", "2", "a", ")">>)
    ELSE IF cost = Num(3) THEN Str(<<"(", "3", "a", ")">>)
    ELSE IF /\ IsString(cost)
            /\ Includes(cost.s, <<" ", "t", "o", " ">>)
            /\ Len(Split(cost.s, <<" ", "t", "o", " ">>)) = 2
    THEN LET parts == Split(cost.s, <<" ", "t", "o", " ">>)
         IN Str(<<"(">> \o parts[1] \o <<"-">> \o parts[2] \o <<"a", ")">>)
    ELSE Str(<<"(", "?", ")">>)

(***************************************************************************)
(* Cost arbiter: determineAuthoritativeCost(identifyResult, llmCost)       *)
(***************************************************************************)
\* Variant of the arbiter that trusts a specific catalog cost before looking
\* at the combo flag.
DetermineAuthoritativeCostCatalogFirst(identifyResult, llmCost) ==
    IF identifyResult.actualActionCost # Null /\ ~IsString(identifyResult.actualActionCost)
    THEN identifyResult.actualActionCost
    ELSE IF llmCost = StrR \/ llmCost = StrF THEN llmCost
    ELSE IF InRange1to3(ParseInt(llmCost)) THEN ParseInt(llmCost)
    ELSE Num(1)

DetermineAuthoritativeCost(identifyResult, llmCost) ==
    LET actualActionCost == identifyResult.actualActionCost
        costSource == identifyResult.costSource
        isCombo == identifyResult.isCombo
        numericLLMCost == ParseInt(llmCost)
    IN IF isCombo
       THEN IF llmCost = StrR \/ llmCost = StrF THEN llmCost
            ELSE IF InRange1to3(numericLLMCost) THEN numericLLMCost
            ELSE IF actualActionCost # Null /\ ~IsString(actualActionCost)
                 THEN actualActionCost
                 ELSE Num(1)
       ELSE IF IsString(actualActionCost) /\ Includes(actualActionCost.s, <<" ", "t", "o", " ">>)
       THEN IF llmCost = StrR \/ llmCost = StrF THEN Num(1)
            ELSE IF InRange1to3(numericLLMCost) THEN numericLLMCost
            ELSE IF MinCostMatch(actualActionCost.s) # NaN
                 THEN MinCostMatch(actualActionCost.s)
                 ELSE Num(1)
       ELSE IF actualActionCost # Null /\ ~IsString(actualActionCost) /\ costSource # "LLM"
       THEN actualActionCost
       ELSE IF llmCost = StrR \/ llmCost = StrF THEN llmCost
       ELSE IF InRange1to3(numericLLMCost) THEN numericLLMCost
       ELSE Num(1)

(***************************************************************************)
(* Bounds of the model                                                     *)
(***************************************************************************)
\* Handler invocations (click handlers and request cycles) in flight at once.
MaxTasks == 1
\* Suggestion cards with enabled buttons that the user may still click.
MaxCards == 1
\* updateCombat hook runs waiting for their 75 ms delay.
MaxPendingHooks == 1
\* Largest Stunned / Slowed value a context snapshot reports.
MaxCondition == 4

(***************************************************************************)
(* State                                                                   *)
(***************************************************************************)
VARIABLES
    current,          \* combat.combatant.id
    previous,         \* combat.previous.combatantId
    turnState,        \* actor flag FLAGS.TURN_STATE of the AI actor, or NoState
    isProcessing,     \* actor flag FLAGS.IS_PROCESSING
    cachedStrikes,    \* actor flag FLAGS.CACHED_STRIKES is set
    offerCard,        \* an offer message with an enabled Accept button exists
    retryButton,      \* a zero-action message with an enabled Retry button exists
    cards,            \* suggestion messages whose buttons are enabled
    tasks,            \* bag of handler invocations suspended at an await
    pendingHooks,     \* updateCombat hook invocations inside their delay
    event,            \* what the last step did (observable outcome)
    audited,          \* the bookkeeping of spent and budget is kept (SpecBudget)
    capacity,         \* handler invocations followed at once (SpecOverlap: one more)
    spent,            \* sum of the costs confirmed since AI control was accepted
    budget,           \* start actions computed from the first snapshot, or -1
    identifyResult,   \* input of the arbiter  (SpecCost)
    llmCost,          \* input of the arbiter  (SpecCost)
    authoritativeCost,\* output of the arbiter (SpecCost)
    parsedCost,       \* argument of formatParsedCostToDisplay (SpecFormat)
    display,          \* result of formatParsedCostToDisplay   (SpecFormat)
    responseString,   \* argument of parseLLMSuggestion, as its lines (SpecParse)
    parsedSuggestion, \* result of parseLLMSuggestion               (SpecParse)
    suggestedText,    \* description given to identifySuggestionTypeAndCost (SpecMatch)
    masterItemList,   \* its catalog, longest names first                   (SpecMatch)
    confirmedMatches, \* the matches it accepts                             (SpecMatch)
    identifiedTraits, \* traits _onConfirmActionClick identifies           (SpecTraits)
    llmCall,          \* a call of callLLM: its loop and its outcome         (SpecLLM)
    chat              \* the roll messages created in the chat              (SpecRend)

turnVars == <<current, previous, turnState, isProcessing, cachedStrikes, offerCard,
              retryButton, cards, tasks, pendingHooks, event, audited, capacity,
              spent, budget>>
costVars == <<identifyResult, llmCost, authoritativeCost>>
formatVars == <<parsedCost, display>>
parseVars == <<responseString, parsedSuggestion>>
matchVars == <<suggestedText, masterItemList, confirmedMatches>>
pureVars == <<costVars, formatVars, parseVars, matchVars, identifiedTraits, llmCall, chat>>
vars == <<turnVars, pureVars>>

\* The combatant the AI flags, cards and handlers of the model belong to, and
\* the other combatant of the encounter.
AI == "c1"
Other == "c2"

NoState == [t |-> "none"]
NotesInputs == {"", "n"}
\* data-map-value of the radios a card carries (0, 5, 10), and a value no
\* radio carries.
MapInputs == {0, 3, 5, 10}
ConditionValues == 0..MaxCondition

Ev(kind) == [kind |-> kind]

(***************************************************************************)
(* The resolver's result for the descriptions the modelled LLM can name,   *)
(* for an actor whose catalog holds the agile strike Claw and the action   *)
(* Trip (one action, attack trait, not agile): a strike costs 1 action and *)
(* carries 'attack'; a description that matches no item keeps costSource   *)
(* "LLM", no cost and no traits.  "Aura" is a purely passive ability.      *)
(***************************************************************************)
Descriptions == {"Claw", "Trip", "Improvise"}
PassiveAbilities == {"Aura"}
LLMCosts == {Num(1), Num(2), Num(3), StrR, StrF}

IdentifySuggestionTypeAndCost(description) ==
    CASE description = "Claw" ->
            [actualActionCost |-> Num(1), costSource |-> "Action/Feat/Spell Item",
             isCombo |-> FALSE, traits |-> {"agile", "attack"}]
      [] description = "Trip" ->
            [actualActionCost |-> Num(1), costSource |-> "Action/Feat/Spell Item",
             isCombo |-> FALSE, traits |-> {"attack"}]
      [] OTHER ->
            [actualActionCost |-> Null, costSource |-> "LLM",
             isCombo |-> FALSE, traits |-> {}]

(***************************************************************************)
(* Turn state helpers                                                      *)
(***************************************************************************)
\* The object _onAcceptControlClick stores in FLAGS.TURN_STATE.
AcceptedTurnState ==
    [actionsRemaining |-> 3, actionsTakenDescriptions |-> <<>>,
     currentMAP |-> 0, manualNotes |-> ""]

\* requestNextAISuggestion's local turnState: the defaults when no
\* updatedTurnState is passed, else the passed object with the condition
\* values defaulted to 0 and non-empty manual notes carried over.
InitialTurnState(updatedTurnState, manualNotes) ==
    IF updatedTurnState = NoState
    THEN [actionsRemaining |-> 3, actionsTakenDescriptions |-> <<>>, currentMAP |-> 0,
          manualNotes |-> IF manualNotes = "null" THEN "" ELSE manualNotes,
          stunnedValueAtStart |-> 0, slowedValueAtStart |-> 0]
    ELSE [actionsRemaining |-> updatedTurnState.actionsRemaining,
          actionsTakenDescriptions |-> updatedTurnState.actionsTakenDescriptions,
          currentMAP |-> updatedTurnState.currentMAP,
          manualNotes |-> IF manualNotes \notin {"null", ""} THEN manualNotes
                          ELSE updatedTurnState.manualNotes,
          stunnedValueAtStart |-> IF "stunnedValueAtStart" \in DOMAIN updatedTurnState
                                  THEN updatedTurnState.stunnedValueAtStart ELSE 0,
          slowedValueAtStart |-> IF "slowedValueAtStart" \in DOMAIN updatedTurnState
                                 THEN updatedTurnState.slowedValueAtStart ELSE 0]

\* Variant of the start-of-turn formula that adds the two condition values.
StartActionsSum(stunnedValue, slowedValue) ==
    Max(0, 3 - (stunnedValue + slowedValue))

\* calculatedStartActions = Math.max(0, 3 - Math.max(stunned, slowed))
StartActions(stunnedValue, slowedValue) ==
    Max(0, 3 - Max(stunnedValue, slowedValue))

\* Variant of the MAP step that adds the penalty of every attack.
NextMAPAdditive(currentMAP, isAgile) ==
    currentMAP + (IF isAgile THEN 4 ELSE 5)

\* Variant of the MAP step that ignores the agile trait.
NextMAPAgileIgnored(currentMAP, isAgile) ==
    IF currentMAP = 0 THEN 5 ELSE 10

\* _updateMAPBasedOnTrait: the MAP after an action with the attack trait.
NextMAP(currentMAP, isAgile) ==
    IF currentMAP = 0 THEN (IF isAgile THEN 4 ELSE 5)
    ELSE IF currentMAP = 4 \/ currentMAP = 5 THEN (IF isAgile THEN 8 ELSE 10)
    ELSE (IF isAgile THEN 8 ELSE 10)

\* numericCostForValidation of requestNextAISuggestion.  For a range the
\* text before " to " is parsed; parseInt stops at the first non-digit, so
\* that is the parse of the whole text.
NumericCostForValidation(cost) ==
    IF cost = StrR \/ cost = StrF THEN 0
    ELSE IF IsString(cost) /\ Includes(cost.s, <<"t", "o">>)
         THEN (IF ParseInt(cost) = NaN THEN 1 ELSE ParseInt(cost).n)
    ELSE IF ParseInt(cost) = NaN THEN 1 ELSE ParseInt(cost).n

(***************************************************************************)
(* Suspended handler invocations                                           *)
(***************************************************************************)
\* pc            where the invocation resumes
\* ts            its local turn state object (turnState / newTurnState)
\* updated       requestNextAISuggestion was given an updatedTurnState
\* skipped       its skippedAction argument ("none" for null), until the
\*               prompt is crafted
\* notes         the manualNotes read by a click handler ("null" for null); in
\*               a request, its notesForThisPrompt
\* viaRetry      the chain was started by _onRetryTurnClick
\* description, cost   the suggestion or the clicked card being processed
Task(pc, ts, updated, skipped, notes, viaRetry, description, cost) ==
    [pc |-> pc, ts |-> ts, updated |-> updated, skipped |-> skipped, notes |-> notes,
     viaRetry |-> viaRetry, description |-> description, cost |-> cost]

InFlight == BagToSet(tasks)
Without(t) == tasks (-) SetToBag({t})
With(base, t) == base (+) SetToBag({t})
CanSpawn == BagCardinality(tasks) < capacity

\* notesForThisPrompt = manualNotes !== null ? manualNotes : turnState.manualNotes
NotesForThisPrompt(manualNotes, ts) ==
    IF manualNotes # "null" THEN manualNotes ELSE ts.manualNotes

\* A variant that leaves the cached strikes behind.
ClearAITurnFlagsKeepCache ==
    /\ turnState' = NoState
    /\ isProcessing' = FALSE
    /\ UNCHANGED cachedStrikes
    /\ spent' = 0
    /\ budget' = -1

\* clearAITurnFlags: TURN_STATE, IS_PROCESSING and CACHED_STRIKES are unset.
\* The bookkeeping of the turn (spent, budget) ends with its state.
ClearAITurnFlags ==
    /\ turnState' = NoState
    /\ isProcessing' = FALSE
    /\ cachedStrikes' = FALSE
    /\ spent' = 0
    /\ budget' = -1

KeepFlags == UNCHANGED <<turnState, isProcessing, cachedStrikes, spent, budget>>

\* _onRetryTurnClick disables its button once the awaited chain has returned.
AfterChain(viaRetry) == IF viaRetry THEN FALSE ELSE retryButton

\* The cards with enabled buttons after a new card is posted.  Cards beyond
\* MaxCards are cards the user will not click again.
CardsAfterPosting(card) ==
    IF card \in cards \/ Cardinality(cards) < MaxCards
    THEN {cards \cup {card}}
    ELSE {(cards \ {old}) \cup {card} : old \in cards}

(***************************************************************************)
(* requestNextAISuggestion, up to its first await: the turn check, the     *)
(* local turn state, and the end-of-turn test.  base is the bag of the     *)
(* other invocations in flight.                                            *)
(***************************************************************************)
\* aborted and entered are the outcomes recorded when the turn check fails
\* and when the request goes on.
RequestWith(base, updatedTurnState, skippedAction, manualNotes, viaRetry, aborted, entered) ==
    IF current # AI
    THEN /\ ClearAITurnFlags
         /\ tasks' = base
         /\ retryButton' = AfterChain(viaRetry)
         /\ event' = aborted
    ELSE LET ts == InitialTurnState(updatedTurnState, manualNotes)
             pc == IF ts.actionsRemaining <= 0 THEN "summary" ELSE "gather"
         IN /\ KeepFlags
            /\ tasks' = With(base, Task(pc, ts, updatedTurnState # NoState, skippedAction,
                                        NotesForThisPrompt(manualNotes, ts), viaRetry,
                                        "none", Null))
            /\ UNCHANGED retryButton
            /\ event' = entered

\* A variant that does not hand the skipped action on.
EnterRequestWithoutSkipped(base, updatedTurnState, skippedAction, manualNotes, viaRetry) ==
    RequestWith(base, updatedTurnState, "none", manualNotes, viaRetry,
                Ev("turnChanged"), Ev("none"))

EnterRequest(base, updatedTurnState, skippedAction, manualNotes, viaRetry) ==
    RequestWith(base, updatedTurnState, skippedAction, manualNotes, viaRetry,
                Ev("turnChanged"), Ev("none"))

\* No call of formatParsedCostToDisplay is followed.
FormatIdle == parsedCost = Null /\ display = Unset
\* No call of identifySuggestionTypeAndCost is followed on its own.
MatchIdle ==
    /\ suggestedText = <<>> /\ masterItemList = <<>> /\ confirmedMatches = Unset
    /\ identifiedTraits = Unset
\* No call of callLLM is followed on its own.
CallIdle == llmCall = Unset
\* No chat message is followed.
ChatIdle == chat = Unset
\* No call of parseLLMSuggestion is followed on its own.
ParseIdle == responseString = <<>> /\ parsedSuggestion = Unset

(***************************************************************************)
(* Initial state: the encounter has started, it is the other combatant's   *)
(* turn, no flag is set and no card is posted.                             *)
(***************************************************************************)
InitTurn ==
    /\ current = Other
    /\ previous = "none"
    /\ turnState = NoState
    /\ isProcessing = FALSE
    /\ cachedStrikes = FALSE
    /\ offerCard = FALSE
    /\ retryButton = FALSE
    /\ cards = {}
    /\ tasks = EmptyBag
    /\ pendingHooks = 0
    /\ event = Ev("none")
    /\ spent = 0
    /\ budget = -1

(***************************************************************************)
(* Turn advance and the updateCombat hook                                  *)
(***************************************************************************)
\* combat.nextTurn(): the tracker advances and updateCombat fires.
AdvanceTurn ==
    /\ pendingHooks < MaxPendingHooks
    /\ current' = IF current = AI THEN Other ELSE AI
    /\ previous' = current
    /\ pendingHooks' = pendingHooks + 1
    /\ event' = Ev("none")
    /\ UNCHANGED <<turnState, isProcessing, cachedStrikes, offerCard, retryButton, cards,
                   tasks, spent, budget, audited, capacity, pureVars>>

\* The hook after its 75 ms delay: flags of the previous combatant are cleared
\* when it was being processed, unactioned offers are deleted and an offer for
\* the current combatant is posted.
UpdateCombatHook ==
    /\ pendingHooks > 0
    /\ pendingHooks' = pendingHooks - 1
    /\ IF previous = AI /\ isProcessing
       THEN ClearAITurnFlags /\ event' = Ev("turnCleanup")
       ELSE KeepFlags /\ event' = Ev("none")
    /\ offerCard' = (current = AI)
    /\ UNCHANGED <<current, previous, retryButton, cards, tasks, audited, capacity, pureVars>>

(***************************************************************************)
(* _onAcceptControlClick                                                   *)
(***************************************************************************)
AcceptClick ==
    /\ offerCard
    /\ CanSpawn
    /\ offerCard' = FALSE
    /\ IF current # AI
       THEN /\ event' = Ev("notTurn")
            /\ UNCHANGED <<isProcessing, tasks>>
       ELSE /\ isProcessing' = TRUE
            /\ tasks' = With(tasks, Task("acceptState", NoState, FALSE, "none", "null",
                                         FALSE, "none", Null))
            /\ event' = Ev("none")
    /\ UNCHANGED <<current, previous, turnState, cachedStrikes, retryButton, cards,
                   pendingHooks, spent, budget, audited, capacity, pureVars>>

AcceptSetTurnState ==
    \E t \in InFlight :
        /\ t.pc = "acceptState"
        /\ turnState' = AcceptedTurnState
        /\ tasks' = With(Without(t), [t EXCEPT !.pc = "acceptCache"])
        /\ spent' = 0
        /\ budget' = -1
        /\ event' = Ev("none")
        /\ UNCHANGED <<current, previous, isProcessing, cachedStrikes, offerCard,
                       retryButton, cards, pendingHooks, audited, capacity, pureVars>>

AcceptUnsetCache ==
    \E t \in InFlight :
        /\ t.pc = "acceptCache"
        /\ cachedStrikes' = FALSE
        /\ tasks' = With(Without(t), [t EXCEPT !.pc = "acceptDelay"])
        /\ event' = Ev("none")
        /\ UNCHANGED <<current, previous, turnState, isProcessing, offerCard,
                       retryButton, cards, pendingHooks, spent, budget, audited, capacity, pureVars>>

AcceptRequest ==
    \E t \in InFlight :
        /\ t.pc = "acceptDelay"
        /\ EnterRequest(Without(t), NoState, "none", "null", FALSE)
        /\ UNCHANGED <<current, previous, offerCard, cards, pendingHooks,
                       audited, capacity, pureVars>>

(***************************************************************************)
(* requestNextAISuggestion after its first await                           *)
(***************************************************************************)
\* The local turn state after the start-of-turn recalculation from the
\* snapshot's Stunned and Slowed values (skipped when a state was passed in).
Recalculated(t, stunnedValue, slowedValue) ==
    IF t.updated THEN t.ts
    ELSE [t.ts EXCEPT !.actionsRemaining = StartActions(stunnedValue, slowedValue),
                      !.stunnedValueAtStart = stunnedValue,
                      !.slowedValueAtStart = slowedValue]

\* Variant of the request without the zero-action test.
AfterSnapshotAlwaysLLM(ts) == "llm"

\* What the request does once the snapshot is gathered: "zero" posts the
\* zero-action message and stops, "llm" caches the strikes and calls the LLM.
AfterSnapshot(ts) == IF ts.actionsRemaining = 0 THEN "zero" ELSE "llm"

\* gatherGameState returned a snapshot with the given condition values.
Gathered ==
    \E t \in InFlight, stunnedValue \in ConditionValues, slowedValue \in ConditionValues :
        LET ts == Recalculated(t, stunnedValue, slowedValue)
            pc == AfterSnapshot(ts)
        IN /\ t.pc = "gather"
           /\ tasks' = With(Without(t), [t EXCEPT !.pc = pc, !.ts = ts,
                                                  !.skipped = "none"])
           /\ retryButton' = IF pc = "zero" THEN TRUE ELSE retryButton
           /\ cachedStrikes' = IF pc = "zero" THEN cachedStrikes ELSE TRUE
           /\ budget' = IF audited /\ ~t.updated /\ budget = -1 THEN ts.actionsRemaining
                        ELSE budget
           /\ event' = IF t.updated THEN Ev("none")
                       ELSE [kind |-> "startComputed", stunned |-> stunnedValue,
                             slowed |-> slowedValue,
                             actionsRemaining |-> ts.actionsRemaining,
                             stunnedValueAtStart |-> ts.stunnedValueAtStart,
                             slowedValueAtStart |-> ts.slowedValueAtStart]
           /\ UNCHANGED <<current, previous, turnState, isProcessing, offerCard, cards,
                          pendingHooks, spent, audited, capacity, pureVars>>

\* gatherGameState returned nothing usable: the catch block clears the flags.
GatherFailed ==
    \E t \in InFlight :
        /\ t.pc = "gather"
        /\ ClearAITurnFlags
        /\ tasks' = Without(t)
        /\ retryButton' = AfterChain(t.viaRetry)
        /\ event' = Ev("requestError")
        /\ UNCHANGED <<current, previous, offerCard, cards, pendingHooks,
                       audited, capacity, pureVars>>

\* The zero-action message is posted: the flags are cleared and the request ends.
ZeroActionStart ==
    \E t \in InFlight :
        /\ t.pc = "zero"
        /\ ClearAITurnFlags
        /\ tasks' = Without(t)
        /\ event' = Ev("zeroActionStart")
        /\ UNCHANGED <<current, previous, offerCard, retryButton, cards, pendingHooks, audited, capacity, pureVars>>

\* No actions remain: the turn summary is posted and the flags are cleared.
TurnComplete ==
    \E t \in InFlight :
        /\ t.pc = "summary"
        /\ ClearAITurnFlags
        /\ tasks' = Without(t)
        /\ retryButton' = AfterChain(t.viaRetry)
        /\ event' = Ev("turnComplete")
        /\ UNCHANGED <<current, previous, offerCard, cards, pendingHooks,
                       audited, capacity, pureVars>>

(***************************************************************************)
(* The LLM reply.  A reply is described by what parseLLMSuggestion looks   *)
(* for in it: shape "fields" is a reply with an ACTION and a TARGET line   *)
(* whose COST line gives cost (Null when the line is missing or its value  *)
(* is not 1, 2, 3, R or F); "noTarget" has ACTION and COST but no TARGET;  *)
(* "plain" is text without any of the markers, name being the text;        *)
(* "empty" is a reply without content.                                     *)
(***************************************************************************)
Reply(shape, name, cost) == [shape |-> shape, name |-> name, cost |-> cost]

Replies ==
    {Reply("empty", "none", Null), Reply("plain", "Improvise", Null),
     Reply("noTarget", "Claw", Num(1)), Reply("fields", "Improvise", Null),
     Reply("fields", "Aura", Num(1))}
    \cup {Reply("fields", name, cost) : name \in Descriptions, cost \in LLMCosts}

\* parseLLMSuggestion: the suggestion, with cost 1 when the cost is missing
\* or invalid, or null when the action or the target is not found.
ParseLLMSuggestion(reply) ==
    IF reply.shape = "fields"
    THEN [description |-> reply.name,
          cost |-> IF reply.cost = Null THEN Num(1) ELSE reply.cost]
    ELSE Null

Thrown == [t |-> "thrown"]

\* Variant of the reply handling that takes a reply without content as text.
SuggestionFromReplyEmptyAsText(reply) ==
    IF ParseLLMSuggestion(reply) # Null THEN ParseLLMSuggestion(reply)
    ELSE IF reply.shape \in {"plain", "empty"}
         THEN [description |-> reply.name, cost |-> Num(1)]
    ELSE Thrown

\* The suggestion requestNextAISuggestion works with: it throws on a reply
\* without content; a reply the parser cannot read becomes a 1-action
\* suggestion of the whole text when it holds neither "ACTION:" nor "COST:",
\* and throws otherwise.
SuggestionFromReply(reply) ==
    IF reply.shape = "empty" THEN Thrown
    ELSE IF ParseLLMSuggestion(reply) # Null THEN ParseLLMSuggestion(reply)
    ELSE IF reply.shape = "plain" THEN [description |-> reply.name, cost |-> Num(1)]
    ELSE Thrown

\* The actions whose prerequisite rule the request evaluates (of Rend, Grab,
\* Trip and Shove, the one the modelled actor has), and the skippedAction the
\* re-request is given.
PrerequisiteActions == {"Trip"}
\* The verdicts the rule can give on a reply: it is only evaluated for the
\* actions that have one.
PrerequisiteVerdicts(reply) ==
    IF reply.name \in PrerequisiteActions THEN BOOLEAN ELSE {FALSE}
FailedPrereqs(name) == CASE name = "Trip" -> "Trip (Failed Prereqs)"

\* Variant of the reply handling without the prerequisite rules.
ReplyOutcomeNoPrerequisite(reply, prerequisiteFails) ==
    LET suggestion == SuggestionFromReply(reply)
    IN IF suggestion = Thrown THEN "thrown"
       ELSE IF suggestion.description \in PassiveAbilities THEN "passive"
       ELSE "present"

\* What the request does with a reply: it throws, re-requests because the
\* suggestion is a passive ability or fails its prerequisite rule
\* (prerequisiteFails is the rule's verdict on the snapshot), or goes on to
\* present the suggestion.
ReplyOutcome(reply, prerequisiteFails) ==
    LET suggestion == SuggestionFromReply(reply)
    IN IF suggestion = Thrown THEN "thrown"
       ELSE IF suggestion.description \in PassiveAbilities THEN "passive"
       ELSE IF suggestion.description \in PrerequisiteActions /\ prerequisiteFails
            THEN "prerequisite"
       ELSE "present"

\* callLLM threw or returned nothing, or the reply cannot be read: the catch
\* block reports the error and clears the flags.
LLMFailed ==
    \E t \in InFlight, reply \in Replies, threw \in BOOLEAN :
        /\ t.pc = "llm"
        /\ threw \/ ReplyOutcome(reply, FALSE) = "thrown"
        /\ ClearAITurnFlags
        /\ tasks' = Without(t)
        /\ retryButton' = AfterChain(t.viaRetry)
        /\ event' = [kind |-> "llmFailed",
                     shape |-> IF threw THEN "threw" ELSE reply.shape,
                     parsed |-> ~threw /\ ParseLLMSuggestion(reply) # Null]
        /\ UNCHANGED <<current, previous, offerCard, cards, pendingHooks,
                       audited, capacity, pureVars>>

\* The reply names a purely passive ability: a new request is made with the
\* suggestion as skipped action and without the turn state.
LLMSuggestsPassive ==
    \E t \in InFlight, reply \in Replies :
        /\ t.pc = "llm"
        /\ ReplyOutcome(reply, FALSE) = "passive"
        /\ RequestWith(Without(t), NoState, SuggestionFromReply(reply).description,
                       t.notes, t.viaRetry,
                       [kind |-> "rerequest", why |-> "passive", entered |-> FALSE],
                       [kind |-> "rerequest", why |-> "passive", entered |-> TRUE])
        /\ UNCHANGED <<current, previous, offerCard, cards, pendingHooks,
                       audited, capacity, pureVars>>

\* The reply is a Trip suggestion whose prerequisite check fails: a new
\* request is made with the same local state.
PrerequisiteFailed ==
    \E t \in InFlight, reply \in Replies :
      \E prerequisiteFails \in PrerequisiteVerdicts(reply) :
        /\ t.pc = "llm"
        /\ ReplyOutcome(reply, prerequisiteFails) = "prerequisite"
        /\ RequestWith(Without(t), t.ts,
                       FailedPrereqs(SuggestionFromReply(reply).description),
                       t.notes, t.viaRetry,
                       [kind |-> "rerequest", why |-> "prerequisite", entered |-> FALSE],
                       [kind |-> "rerequest", why |-> "prerequisite", entered |-> TRUE])
        /\ UNCHANGED <<current, previous, offerCard, cards, pendingHooks,
                       audited, capacity, pureVars>>

\* The reply parses into a suggestion that passes the checks: the resolver
\* identifies it, the cost is arbitrated and validated, and the card is
\* posted, or the overrun is reported and the flags are cleared.
Arbitrated ==
    \E t \in InFlight, reply \in Replies :
      \E prerequisiteFails \in PrerequisiteVerdicts(reply) :
        LET description == SuggestionFromReply(reply).description
            cost == SuggestionFromReply(reply).cost
            authoritative == DetermineAuthoritativeCost(
                                 IdentifySuggestionTypeAndCost(description), cost)
            numeric == NumericCostForValidation(authoritative)
        IN /\ t.pc = "llm"
           /\ ReplyOutcome(reply, prerequisiteFails) = "present"
           /\ tasks' = Without(t)
           /\ retryButton' = AfterChain(t.viaRetry)
           /\ IF numeric > 0 /\ numeric > t.ts.actionsRemaining
              THEN /\ ClearAITurnFlags
                   /\ event' = Ev("costOverrun")
                   /\ UNCHANGED cards
              ELSE /\ KeepFlags
                   /\ cards' \in CardsAfterPosting([cost |-> authoritative,
                                                    description |-> description])
                   /\ event' = [kind |-> "presented", cost |-> authoritative,
                                actionsRemaining |-> t.ts.actionsRemaining,
                                shape |-> reply.shape,
                                parsed |-> ParseLLMSuggestion(reply) # Null,
                                viaRetry |-> t.viaRetry,
                                prerequisiteFailed |->
                                    description \in PrerequisiteActions /\ prerequisiteFails]
           /\ UNCHANGED <<current, previous, offerCard, pendingHooks,
                          audited, capacity, pureVars>>

(***************************************************************************)
(* _onConfirmActionClick                                                   *)
(***************************************************************************)
\* Variant of the written state with the sign of the cost reversed.
ConfirmedTurnStateAdding(currentTurnState, actionCost, description) ==
    [currentTurnState EXCEPT
        !.actionsRemaining = Max(0, currentTurnState.actionsRemaining + actionCost),
        !.actionsTakenDescriptions = Append(currentTurnState.actionsTakenDescriptions,
                                            description),
        !.manualNotes = ""]

\* The state the handler writes: cost subtracted (never below 0), the
\* description appended, the notes cleared, everything else as it was read.
ConfirmedTurnState(currentTurnState, actionCost, description) ==
    [currentTurnState EXCEPT
        !.actionsRemaining = Max(0, currentTurnState.actionsRemaining - actionCost),
        !.actionsTakenDescriptions = Append(currentTurnState.actionsTakenDescriptions,
                                            description),
        !.manualNotes = ""]

\* isNaN(cost) || cost < 0 || cost > actionsRemaining
CostRejected(actionCostForValidation, currentTurnState) ==
    \/ actionCostForValidation = NaN
    \/ actionCostForValidation.n < 0
    \/ actionCostForValidation.n > currentTurnState.actionsRemaining

\* The click up to the first await: the card is disabled, the turn and the
\* flag are checked, the cost on the button is validated against the flag.
ConfirmClick ==
    \E card \in cards, manualNotes \in NotesInputs :
        LET actionCostForValidation == ParseInt(card.cost)
        IN /\ CanSpawn
           /\ IF current # AI \/ turnState = NoState
              THEN /\ ClearAITurnFlags
                   /\ cards' = cards \ {card}
                   /\ event' = Ev("confirmRefused")
                   /\ UNCHANGED tasks
              ELSE IF CostRejected(actionCostForValidation, turnState)
              THEN /\ KeepFlags
                   /\ event' = Ev("costError")
                   /\ UNCHANGED <<cards, tasks>>
              ELSE /\ KeepFlags
                   /\ cards' = cards \ {card}
                   /\ tasks' = With(tasks, Task("confirmIdentify", turnState, TRUE, "none",
                                                manualNotes, FALSE, card.description,
                                                actionCostForValidation))
                   /\ event' = Ev("none")
           /\ UNCHANGED <<current, previous, offerCard, retryButton, pendingHooks, audited, capacity, pureVars>>

\* The traits are identified and the new state is saved.
ConfirmSave ==
    \E t \in InFlight :
        LET newTurnState == ConfirmedTurnState(t.ts, t.cost.n, t.description)
        IN /\ t.pc = "confirmIdentify"
           /\ turnState' = newTurnState
           /\ spent' = IF audited THEN spent + t.cost.n ELSE spent
           /\ tasks' = With(Without(t), [t EXCEPT !.pc = "confirmMAP", !.ts = newTurnState])
           /\ event' = [kind |-> "confirmed", cost |-> t.cost.n]
           /\ UNCHANGED <<current, previous, isProcessing, cachedStrikes, offerCard,
                          retryButton, cards, pendingHooks, budget, audited, capacity, pureVars>>

\* _updateMAPBasedOnTrait with the traits of the confirmed action.
ConfirmUpdateMAP ==
    \E t \in InFlight :
        LET traits == IdentifySuggestionTypeAndCost(t.description).traits
            update == "attack" \in traits /\ turnState # NoState
            nextMAP == NextMAP(turnState.currentMAP, "agile" \in traits)
        IN /\ t.pc = "confirmMAP"
           /\ turnState' = IF update THEN [turnState EXCEPT !.currentMAP = nextMAP]
                           ELSE turnState
           /\ tasks' = With(Without(t), [t EXCEPT !.pc = "confirmDelay"])
           /\ event' = IF update
                       THEN [kind |-> "mapUpdated", agile |-> "agile" \in traits,
                             from |-> turnState.currentMAP, to |-> nextMAP]
                       ELSE Ev("mapKept")
           /\ UNCHANGED <<current, previous, isProcessing, cachedStrikes, offerCard,
                          retryButton, cards, pendingHooks, spent, budget, audited, capacity, pureVars>>

ConfirmRequest ==
    \E t \in InFlight :
        /\ t.pc = "confirmDelay"
        /\ EnterRequest(Without(t), t.ts, "none", t.notes, FALSE)
        /\ UNCHANGED <<current, previous, offerCard, cards, pendingHooks,
                       audited, capacity, pureVars>>

(***************************************************************************)
(* _onSkipActionClick                                                      *)
(***************************************************************************)
\* A variant that starts the skipped state from a full set of actions.
SkippedTurnStateResetActions(currentTurnState, manualNotes) ==
    [currentTurnState EXCEPT !.manualNotes = manualNotes, !.actionsRemaining = 3]

\* updatedTurnState = deepClone(currentTurnState) with manualNotes replaced.
SkippedTurnState(currentTurnState, manualNotes) ==
    [currentTurnState EXCEPT !.manualNotes = manualNotes]

SkipClick ==
    \E card \in cards, manualNotes \in NotesInputs :
        /\ CanSpawn
        /\ cards' = cards \ {card}
        /\ IF current # AI \/ ~isProcessing \/ turnState = NoState
           THEN /\ ClearAITurnFlags
                /\ event' = Ev("skipRefused")
                /\ UNCHANGED tasks
           ELSE LET updatedTurnState == SkippedTurnState(turnState, manualNotes)
                IN /\ turnState' = updatedTurnState
                   /\ UNCHANGED <<isProcessing, cachedStrikes, spent, budget>>
                   /\ tasks' = With(tasks, Task("skipDelay", updatedTurnState, TRUE,
                                                card.description, manualNotes, FALSE,
                                                "none", Null))
                   /\ event' = Ev("skipped")
        /\ UNCHANGED <<current, previous, offerCard, retryButton, pendingHooks, audited, capacity, pureVars>>

SkipRequest ==
    \E t \in InFlight :
        /\ t.pc = "skipDelay"
        /\ EnterRequest(Without(t), t.ts, t.skipped, t.notes, FALSE)
        /\ UNCHANGED <<current, previous, offerCard, cards, pendingHooks,
                       audited, capacity, pureVars>>

(***************************************************************************)
(* _onEndTurnClick, _onRetryTurnClick, _onManualMAPAdjust                  *)
(***************************************************************************)
EndTurnClick ==
    \E card \in cards :
        /\ CanSpawn
        /\ cards' = cards \ {card}
        /\ tasks' = With(tasks, Task("endSummary", NoState, FALSE, "none", "null", FALSE,
                                     "none", Null))
        /\ event' = Ev("none")
        /\ UNCHANGED <<current, previous, turnState, isProcessing, cachedStrikes, offerCard,
                       retryButton, pendingHooks, spent, budget, audited, capacity, pureVars>>

\* The summary is posted (or has failed) and the flags are cleared.
EndTurnClear ==
    \E t \in InFlight :
        /\ t.pc = "endSummary"
        /\ ClearAITurnFlags
        /\ tasks' = Without(t)
        /\ event' = Ev("turnEnded")
        /\ UNCHANGED <<current, previous, offerCard, retryButton, cards, pendingHooks, audited, capacity, pureVars>>

RetryClick ==
    /\ retryButton
    /\ current = AI
    /\ CanSpawn
    /\ EnterRequest(tasks, NoState, "none", "null", TRUE)
    /\ UNCHANGED <<current, previous, offerCard, cards, pendingHooks,
                   audited, capacity, pureVars>>

\* A MAP radio of a card is clicked (the radios are disabled together with
\* the card's buttons).  The handler returns without writing
\* unless the value is one of 0, 4, 5, 8, 10, it is the combatant's turn, the
\* AI is processing, the state exists and the value differs from the stored one.
MAPAdjust(mapValue) ==
    /\ mapValue \in {0, 4, 5, 8, 10}
    /\ current = AI
    /\ isProcessing
    /\ turnState # NoState
    /\ turnState.currentMAP # mapValue
    /\ turnState' = [turnState EXCEPT !.currentMAP = mapValue]
    /\ event' = [kind |-> "mapOverride", from |-> turnState.currentMAP, to |-> mapValue]
    /\ UNCHANGED <<current, previous, isProcessing, cachedStrikes, offerCard,
                   retryButton, cards, tasks, pendingHooks, spent, budget, audited, capacity, pureVars>>

ManualMAPAdjust ==
    \E card \in cards, mapValue \in MapInputs : MAPAdjust(mapValue)

\* The renderChatMessage hook binds the handler to the radios of every
\* rendering of the card (each client that sees the message, the chat popout);
\* _onConfirmActionClick disables only the radios of the rendering that was
\* clicked.  While the confirmation is in flight a radio of another rendering
\* can still be changed.
ConfirmSteps == {"confirmIdentify", "confirmMAP", "confirmDelay"}

ManualMAPAdjustOtherView ==
    \E t \in InFlight, mapValue \in MapInputs :
        /\ t.pc \in ConfirmSteps
        /\ MAPAdjust(mapValue)

(***************************************************************************)
(* The turn state machine                                                  *)
(***************************************************************************)
Init ==
    /\ InitTurn
    /\ audited = FALSE
    /\ capacity = MaxTasks
    /\ identifyResult = Null
    /\ llmCost = Null
    /\ authoritativeCost = Unset
    /\ FormatIdle
    /\ ParseIdle
    /\ MatchIdle
    /\ CallIdle
    /\ ChatIdle

Next ==
    \/ AdvanceTurn
    \/ UpdateCombatHook
    \/ AcceptClick
    \/ AcceptSetTurnState
    \/ AcceptUnsetCache
    \/ AcceptRequest
    \/ Gathered
    \/ GatherFailed
    \/ ZeroActionStart
    \/ TurnComplete
    \/ LLMFailed
    \/ LLMSuggestsPassive
    \/ PrerequisiteFailed
    \/ Arbitrated
    \/ ConfirmClick
    \/ ConfirmSave
    \/ ConfirmUpdateMAP
    \/ ConfirmRequest
    \/ SkipClick
    \/ SkipRequest
    \/ EndTurnClick
    \/ EndTurnClear
    \/ RetryClick
    \/ ManualMAPAdjust

Spec == Init /\ [][Next]_vars

(***************************************************************************)
(* The cost arbiter on its own: the resolver result and the LLM cost are   *)
(* drawn from the values the resolver and the reply parser can produce     *)
(* (and a few they cannot), and Arbitrate applies the arbiter once.        *)
(***************************************************************************)
CatalogCosts ==
    {Null, Num(0), Num(1), Num(2), Num(3), StrR, StrF,
     Range("1", "2"), Range("1", "3"), Range("2", "3")}
CostSources ==
    {"LLM", "Action/Feat/Spell Item", "Consumable Item", "Flurry of Blows Rule"}
LLMCostInputs ==
    {Null, Num(0), Num(1), Num(2), Num(3), Num(4), StrR, StrF, Str(<<"2">>),
     Range("1", "3")}
IdentifyResults ==
    [actualActionCost : CatalogCosts, costSource : CostSources, isCombo : BOOLEAN]

ConcreteCosts == {Num(1), Num(2), Num(3), StrR, StrF}

InitCost ==
    /\ InitTurn
    /\ audited = FALSE
    /\ capacity = MaxTasks
    /\ identifyResult \in IdentifyResults
    /\ llmCost \in LLMCostInputs
    /\ authoritativeCost = Unset
    /\ FormatIdle
    /\ ParseIdle
    /\ MatchIdle
    /\ CallIdle
    /\ ChatIdle

Arbitrate ==
    /\ authoritativeCost = Unset
    /\ authoritativeCost' = DetermineAuthoritativeCost(identifyResult, llmCost)
    /\ UNCHANGED <<turnVars, identifyResult, llmCost, formatVars, parseVars, matchVars, identifiedTraits, llmCall, chat>>

NextCost == Arbitrate

SpecCost == InitCost /\ [][NextCost]_vars

\* C9: for a non-combo suggestion whose catalog cost is concrete (1, 2, 3,
\* Reaction or Free) and does not come from the LLM, the arbiter returns
\* exactly the catalog cost.
C9_CatalogCostReturned ==
    (/\ authoritativeCost # Unset
     /\ ~identifyResult.isCombo
     /\ identifyResult.actualActionCost \in ConcreteCosts
     /\ identifyResult.costSource # "LLM")
    => authoritativeCost = identifyResult.actualActionCost

\* C10: for a combo suggestion whose LLM cost is one of 1, 2, 3, Reaction or
\* Free, the arbiter returns the LLM cost whatever the catalog cost is.
C10_ComboReturnsLLMCost ==
    (/\ authoritativeCost # Unset
     /\ identifyResult.isCombo
     /\ llmCost \in ConcreteCosts)
    => authoritativeCost = llmCost

\* C10 witness: a combo whose catalog cost is 1 while the LLM says 2 has been
\* arbitrated to 2.
C10_Witness ==
    /\ identifyResult.isCombo
    /\ identifyResult.actualActionCost = Num(1)
    /\ identifyResult.costSource = "Action/Feat/Spell Item"
    /\ llmCost = Num(2)
    /\ authoritativeCost = Num(2)

(***************************************************************************)
(* The turn with its budget audited: spent sums the confirmed costs and    *)
(* budget holds the start actions computed from the first snapshot after   *)
(* control was accepted.  The steps are those of an undisturbed turn:      *)
(* accept, suggestions, confirmations, and the turn advancing.             *)
(***************************************************************************)
InitBudget ==
    /\ InitTurn
    /\ audited = TRUE
    /\ capacity = MaxTasks
    /\ identifyResult = Null
    /\ llmCost = Null
    /\ authoritativeCost = Unset
    /\ FormatIdle
    /\ ParseIdle
    /\ MatchIdle
    /\ CallIdle
    /\ ChatIdle

NextBudget ==
    \/ AdvanceTurn
    \/ UpdateCombatHook
    \/ AcceptClick
    \/ AcceptSetTurnState
    \/ AcceptUnsetCache
    \/ AcceptRequest
    \/ Gathered
    \/ ZeroActionStart
    \/ TurnComplete
    \/ Arbitrated
    \/ ConfirmClick
    \/ ConfirmSave
    \/ ConfirmUpdateMAP
    \/ ConfirmRequest

SpecBudget == InitBudget /\ [][NextBudget]_vars

(***************************************************************************)
(* Properties of the turn state machine                                    *)
(***************************************************************************)
\* C1: in every reachable state a persisted turn state has actionsRemaining
\* between 0 and 3.
C1_ActionsRemainingInRange ==
    turnState # NoState => turnState.actionsRemaining \in 0..3

\* C1 witness: a confirmation of a 3-action suggestion has brought the
\* persisted actionsRemaining to 0.
C1_Witness ==
    /\ event.kind = "confirmed"
    /\ event.cost = 3
    /\ turnState # NoState
    /\ turnState.actionsRemaining = 0

\* C2: in every reachable state the currentMAP of a persisted turn state is
\* one of 0, 4, 5, 8, 10.
C2_MAPInSet ==
    turnState # NoState => turnState.currentMAP \in {0, 4, 5, 8, 10}

\* C2 witness: after an agile attack and a manual override to 5, a second
\* agile attack has been confirmed and the MAP is 8.
C2_Witness ==
    /\ event.kind = "mapUpdated"
    /\ event.agile
    /\ event.from = 5
    /\ turnState # NoState
    /\ turnState.currentMAP = 8
    /\ turnState.actionsTakenDescriptions = <<"Claw", "Claw">>

\* C3: a confirmed non-agile attack takes the MAP from 0 to 5, from 5 to 10
\* and from 10 to 10; a confirmed agile attack takes it from 0 to 4, from 4
\* to 8 and from 8 to 8; the value is the one persisted.
C3_MAPProgression ==
    event.kind = "mapUpdated" =>
        /\ turnState # NoState
        /\ turnState.currentMAP = event.to
        /\ ~event.agile /\ event.from = 0 => event.to = 5
        /\ ~event.agile /\ event.from = 5 => event.to = 10
        /\ ~event.agile /\ event.from = 10 => event.to = 10
        /\ event.agile /\ event.from = 0 => event.to = 4
        /\ event.agile /\ event.from = 4 => event.to = 8
        /\ event.agile /\ event.from = 8 => event.to = 8

\* C3 witness: the third of three confirmed non-agile attacks has left the
\* MAP at 10.
C3_Witness ==
    /\ event.kind = "mapUpdated"
    /\ ~event.agile
    /\ event.from = 10
    /\ event.to = 10
    /\ turnState # NoState
    /\ turnState.actionsTakenDescriptions = <<"Trip", "Trip", "Trip">>

\* C4: a confirmed attack never lowers currentMAP, whatever mix of agile and
\* non-agile attacks was confirmed before it.
C4_MAPNeverLoweredByConfirm ==
    event.kind = "mapUpdated" => event.to >= event.from

\* C5: the start actions computed from the first snapshot are
\* max(0, 3 - max(stunned, slowed)), and stunnedValueAtStart and
\* slowedValueAtStart record the snapshot's values.
C5_StartActionsFromConditions ==
    event.kind = "startComputed" =>
        LET worst == IF event.stunned >= event.slowed THEN event.stunned
                     ELSE event.slowed
        IN /\ event.actionsRemaining = (IF worst >= 3 THEN 0 ELSE 3 - worst)
           /\ event.stunnedValueAtStart = event.stunned
           /\ event.slowedValueAtStart = event.slowed
           /\ event.stunned = 2 /\ event.slowed = 0 => event.actionsRemaining = 1
           /\ event.stunned = 4 => event.actionsRemaining = 0

\* C5 witness: a first snapshot with Stunned 2 and Slowed 0 has been
\* resolved to 1 action.
C5_Witness ==
    /\ event.kind = "startComputed"
    /\ event.stunned = 2
    /\ event.slowed = 0
    /\ event.actionsRemaining = 1

C6_ZeroStartState ==
    /\ \A t \in InFlight : t.pc = "llm" => t.ts.actionsRemaining > 0
    /\ event.kind = "startComputed" /\ event.actionsRemaining = 0
           => \E t \in InFlight : t.pc = "zero"
    /\ event.kind = "presented" => event.actionsRemaining > 0
    /\ event.kind = "zeroActionStart"
           => turnState = NoState /\ ~isProcessing /\ ~cachedStrikes

C6_ZeroStartStep ==
    \A t \in InFlight :
        t.pc = "zero" /\ CopiesIn(t, tasks') < CopiesIn(t, tasks)
            => /\ event'.kind = "zeroActionStart"
               /\ cards' = cards
               /\ \A u \in BagToSet(tasks') : CopiesIn(u, tasks') <= CopiesIn(u, tasks)

\* C6: when the start actions computed from the conditions are 0, the request
\* never reaches the LLM call and never presents a suggestion; the only step
\* it takes posts no card, starts no request and leaves the turn state, the
\* processing flag and the strike cache cleared.
C6_ZeroStartEndsTurn ==
    []C6_ZeroStartState /\ [][C6_ZeroStartStep]_vars

\* C6 witness: a request whose start actions were 0 has ended, with the flags
\* cleared and the Retry button offered.
C6_Witness ==
    /\ event.kind = "zeroActionStart"
    /\ turnState = NoState
    /\ ~isProcessing
    /\ retryButton

\* C7: the costs confirmed since control was accepted never add up to more
\* than the start actions computed from the first snapshot of the turn.
C7_SpentWithinBudget ==
    budget # -1 => spent <= budget

\* C8: a presented suggestion has a cost among 1, 2, 3, Reaction, Free whose
\* numeric minimum does not exceed the persisted actionsRemaining at the
\* moment of the presentation.
C8_PresentedCostAffordable ==
    (event.kind = "presented" /\ turnState # NoState) =>
        /\ event.cost \in ConcreteCosts
        /\ NumericCostForValidation(event.cost) <= turnState.actionsRemaining

(***************************************************************************)
(* Properties of the cost arbiter (continued)                              *)
(***************************************************************************)
\* The lower end m of a catalog range 'm to n'.
RangeMin(cost) ==
    CASE cost = Range("1", "2") -> 1
      [] cost = Range("1", "3") -> 1
      [] cost = Range("2", "3") -> 2

\* C11: for a non-combo suggestion whose catalog cost is a range 'm to n',
\* the arbiter returns the LLM cost when it is a number in 1..3 and m for
\* every other LLM cost (absent, out of range, Reaction or Free).
C11_RangeCost ==
    (/\ authoritativeCost # Unset
     /\ ~identifyResult.isCombo
     /\ identifyResult.actualActionCost \in
            {Range("1", "2"), Range("1", "3"), Range("2", "3")}
     /\ llmCost \in {Null, Num(0), Num(1), Num(2), Num(3), Num(4), StrR, StrF})
    => authoritativeCost =
           (IF llmCost \in {Num(1), Num(2), Num(3)} THEN llmCost
            ELSE Num(RangeMin(identifyResult.actualActionCost)))

\* C12: for every resolver result and every LLM cost the arbiter returns a
\* concrete cost: 1, 2, 3, Reaction or Free.
C12_ConcreteResult ==
    authoritativeCost # Unset => authoritativeCost \in ConcreteCosts

(***************************************************************************)
(* Properties of the request cycle: errors and re-requests                 *)
(***************************************************************************)
\* C13: when the cost of a suggestion exceeds the actions remaining, found
\* while the suggestion is resolved or when Confirm is clicked, the persisted
\* turn state is left exactly as it was: no field changes and it is not
\* cleared.
C13_OverrunLeavesState ==
    [][event'.kind \in {"costOverrun", "costError"} => turnState' = turnState]_vars

C14_FailureState ==
    /\ (event.kind = "llmFailed" /\ event.shape \in {"threw", "empty"})
           => turnState = NoState /\ ~isProcessing /\ ~cachedStrikes
    /\ event.kind = "presented" => event.shape \notin {"threw", "empty"}

C14_FailureStep ==
    /\ (event'.kind = "llmFailed" /\ event'.shape \in {"threw", "empty"})
           => cards' = cards /\ tasks' \sqsubseteq tasks
    /\ \A t \in InFlight :
           (t.pc \in {"gather", "llm"} /\ CopiesIn(t, tasks') < CopiesIn(t, tasks))
               => turnState' \in {turnState, NoState}

\* C14: when the LLM call throws or returns no content, the flags are
\* cleared, no suggestion is presented and no further request is started; and
\* no step of a request before or at the call changes a field of the persisted
\* turn state (it can only clear it).
C14_LLMFailureAborts ==
    []C14_FailureState /\ [][C14_FailureStep]_vars

\* C14 witness: a cycle whose LLM call returned no content has ended with the
\* flags cleared.
C14_Witness ==
    /\ event.kind = "llmFailed"
    /\ event.shape = "empty"
    /\ turnState = NoState
    /\ ~isProcessing
    /\ tasks = EmptyBag

\* C15: a non-empty reply for which parseLLMSuggestion returns null ends the
\* cycle with an error and the turn state cleared; no suggestion built from
\* that reply is presented.
C15_UnparsedReplyFails ==
    (/\ event.kind \in {"presented", "llmFailed"}
     /\ event.shape \notin {"threw", "empty"}
     /\ ~event.parsed)
    => (event.kind = "llmFailed" /\ turnState = NoState)

C16_PrerequisiteState ==
    event.kind = "presented" => ~event.prerequisiteFailed

C16_PrerequisiteStep ==
    (event'.kind = "rerequest" /\ event'.why = "prerequisite") =>
        /\ cards' = cards
        /\ IF event'.entered
           THEN /\ turnState' = turnState
                /\ \E t \in InFlight, u \in BagToSet(tasks') :
                       /\ t.pc = "llm"
                       /\ u.pc = "gather"
                       /\ u.skipped = "Trip (Failed Prereqs)"
                       /\ u.ts = [t.ts EXCEPT !.manualNotes = u.ts.manualNotes]
                       /\ tasks' = With(Without(t), u)
           ELSE /\ turnState' = NoState
                /\ tasks' \sqsubseteq tasks

\* C16: a suggestion whose prerequisite rule fails is never presented; the
\* step that finds the failure posts no card and starts exactly one request
\* that carries the rejected action and the failure as skipped action, with
\* the same local turn state, and leaves the persisted turn state unchanged
\* (when the turn has moved on, the request's turn check clears it instead).
C16_PrerequisiteRerequest ==
    []C16_PrerequisiteState /\ [][C16_PrerequisiteStep]_vars

\* C16 witness: after a confirmed action, a Trip suggestion has failed its
\* rule and the replacement request is in flight with the skipped action.
C16_Witness ==
    /\ event.kind = "rerequest"
    /\ event.why = "prerequisite"
    /\ event.entered
    /\ turnState # NoState
    /\ turnState.actionsRemaining = 2
    /\ \E t \in InFlight : t.pc = "gather" /\ t.skipped = "Trip (Failed Prereqs)"

(***************************************************************************)
(* Properties of the handlers against a turn advance                       *)
(***************************************************************************)
\* C17: no step of the Confirm or Skip handler (the save, the MAP update, the
\* skip's save) writes the persisted turn state while the combatant is not
\* the active one.
C17_NoWriteOffTurn ==
    event.kind \in {"confirmed", "mapUpdated", "skipped"} => current = AI

\* C18: when the reply of the LLM is handled while the combatant is no longer
\* the active one, no suggestion is presented and the turn state is cleared.
C18_ReplyAfterTurnChange ==
    (event.kind \in {"presented", "costOverrun", "llmFailed", "rerequest"} /\ current # AI)
        => (event.kind # "presented" /\ turnState = NoState)

(***************************************************************************)
(* Overlapping handlers: the start of a turn, the request cycle and the    *)
(* Retry Turn button, with one more handler invocation followed at once.   *)
(***************************************************************************)
InitOverlap ==
    /\ InitTurn
    /\ audited = FALSE
    /\ capacity = MaxTasks + 1
    /\ identifyResult = Null
    /\ llmCost = Null
    /\ authoritativeCost = Unset
    /\ FormatIdle
    /\ ParseIdle
    /\ MatchIdle
    /\ CallIdle
    /\ ChatIdle

NextOverlap ==
    \/ AdvanceTurn
    \/ UpdateCombatHook
    \/ AcceptClick
    \/ AcceptSetTurnState
    \/ AcceptUnsetCache
    \/ AcceptRequest
    \/ Gathered
    \/ ZeroActionStart
    \/ LLMFailed
    \/ RetryClick

SpecOverlap == InitOverlap /\ [][NextOverlap]_vars

\* The positions of a requestNextAISuggestion chain that has not yet presented
\* a suggestion, ended the turn or failed ("zero" is left out: the zero-action
\* message is posted and the chain is ending).
CycleSteps == {"gather", "summary", "llm"}

CyclesInFlight ==
    BagCardinality([t \in {u \in InFlight : u.pc \in CycleSteps} |-> CopiesIn(t, tasks)])

\* C19: at most one resolution cycle of the combatant is in flight at any
\* time, whatever the timing of the clicks.
C19_OneCycleInFlight ==
    CyclesInFlight <= 1

(***************************************************************************)
(* Properties of Skip                                                      *)
(***************************************************************************)
C20_SkipStep ==
    /\ event'.kind = "skipped"
           => /\ turnState # NoState
              /\ turnState' = [turnState EXCEPT !.manualNotes = turnState'.manualNotes]
    /\ \A t \in InFlight :
           (t.pc = "skipDelay" /\ CopiesIn(t, tasks') < CopiesIn(t, tasks))
               => \/ turnState' = turnState
                  \/ current # AI /\ turnState' = NoState

\* C20: the write of a Skip changes no field of the persisted turn state but
\* manualNotes (actionsRemaining, currentMAP and the action history keep
\* their values), and the request the Skip starts after its delay writes
\* nothing (it clears the state only when the turn has moved on).
C20_SkipKeepsState ==
    [][C20_SkipStep]_vars

\* C20 witness: a suggestion is skipped with new notes after an action was
\* confirmed, so fewer than three actions remain and the history is not empty.
C20_Witness ==
    /\ event.kind = "skipped"
    /\ turnState # NoState
    /\ turnState.manualNotes = "n"
    /\ turnState.actionsRemaining < 3
    /\ turnState.actionsTakenDescriptions # <<>>

(***************************************************************************)
(* Properties of the end of a turn                                         *)
(***************************************************************************)
C21_EndStep ==
    /\ event'.kind \in {"turnEnded", "turnComplete", "zeroActionStart"}
           => /\ turnState' = NoState
              /\ ~isProcessing'
              /\ ~cachedStrikes'
              /\ cards' \subseteq cards
              /\ tasks' \sqsubseteq tasks
              /\ BagCardinality(tasks') = BagCardinality(tasks) - 1
    /\ turnState = NoState
           => \A u \in BagToSet(tasks') :
                  u.pc \in {"confirmIdentify", "skipDelay"}
                      => CopiesIn(u, tasks') <= CopiesIn(u, tasks)

C22_ClearedStaysAbsent ==
    [][event.kind = "turnCleanup"
           => \/ turnState' = NoState
              \/ \E t \in InFlight :
                     t.pc = "acceptState" /\ CopiesIn(t, tasks') < CopiesIn(t, tasks)]_vars

(***************************************************************************)
(* formatParsedCostToDisplay on its own: the argument is drawn from the    *)
(* values parseActionCostValue can return and from values it cannot, and   *)
(* Format applies the function once.                                       *)
(***************************************************************************)
RangeDigits == {"0", "1", "2", "3", "4", "5"}
FormatInputs ==
    {Null, NaN, Unset, StrR, StrF}
    \cup {Num(n) : n \in 0..5}
    \cup {Range(m, n) : m, n \in RangeDigits}
    \cup {Str(<<>>), Str(<<"1">>), Str(<<"r">>), Str(<<"t", "o">>),
          Str(<<" ", "t", "o", " ">>), Str(<<"1", " ", "t", "o">>),
          Str(<<"1", " ", "t", "o", " ", "2", " ", "t", "o", " ", "3">>)}

InitFormat ==
    /\ InitTurn
    /\ audited = FALSE
    /\ capacity = MaxTasks
    /\ identifyResult = Null
    /\ llmCost = Null
    /\ authoritativeCost = Unset
    /\ parsedCost \in FormatInputs
    /\ display = Unset
    /\ ParseIdle
    /\ MatchIdle
    /\ CallIdle
    /\ ChatIdle

Format ==
    /\ display = Unset
    /\ display' = FormatParsedCostToDisplay(parsedCost)
    /\ UNCHANGED <<turnVars, costVars, parsedCost, parseVars, matchVars, identifiedTraits, llmCall, chat>>

NextFormat == Format

SpecFormat == InitFormat /\ [][NextFormat]_vars

\* The display text the eight representable cost values have, "(?)" for every
\* other value.
DisplayOf(cost) ==
    CASE cost = Num(1) -> Str(<<"(", "1", "a", ")">>)
      [] cost = Num(2) -> Str(<<"(", "2", "a", ")">>)
      [] cost = Num(3) -> Str(<<"(", "3", "a", ")">>)
      [] cost = StrR -> Str(<<"(", "R", ")">>)
      [] cost = StrF -> Str(<<"(", "F", ")">>)
      [] cost = Range("1", "2") -> Str(<<"(", "1", "-", "2", "a", ")">>)
      [] cost = Range("1", "3") -> Str(<<"(", "1", "-", "3", "a", ")">>)
      [] cost = Range("2", "3") -> Str(<<"(", "2", "-", "3", "a", ")">>)
      [] OTHER -> Str(<<"(", "?", ")">>)

\* C23: formatParsedCostToDisplay gives 1, 2, 3, Reaction, Free, '1 to 2',
\* '1 to 3' and '2 to 3' their display text and every other value "(?)".
C23_FormatDisplay ==
    display # Unset => display = DisplayOf(parsedCost)

(***************************************************************************)
(* parseLLMSuggestion(responseString).  The response is modelled as its    *)
(* lines; a line is the label it starts with ("ACTION", "TARGET", "COST",  *)
(* or "none" for a line without label) and the text after the label, a     *)
(* tuple of characters without surrounding white space.  Lines labelled    *)
(* Rationale or NARRATIVE, markdown asterisks and a leading hyphen are     *)
(* left out of the inputs.                                                 *)
(***************************************************************************)
Line(label, text) == [label |-> label, text |-> text]

LabelText(label) ==
    CASE label = "ACTION" -> <<"A", "C", "T", "I", "O", "N", ":">>
      [] label = "TARGET" -> <<"T", "A", "R", "G", "E", "T", ":">>
      [] label = "COST" -> <<"C", "O", "S", "T", ":">>
      [] label = "Rationale" -> <<"R", "a", "t", "i", "o", "n", "a", "l", "e", ":">>
      [] label = "NARRATIVE" -> <<"N", "A", "R", "R", "A", "T", "I", "V", "E", ":">>

\* The characters of a line of the response.
Render(line) ==
    IF line.label = "none" THEN line.text
    ELSE IF line.text = <<>> THEN LabelText(line.label)
    ELSE LabelText(line.label) \o <<" ">> \o line.text

Min(S) == CHOOSE x \in S : \A y \in S : x <= y

\* Index of the first line with the label, or 0.
FirstLabelled(lines, label) ==
    Min({i \in 1..Len(lines) : lines[i].label = label} \cup {Len(lines) + 1}) % (Len(lines) + 1)

\* Index of the first line after line i that starts with one of the labels of
\* the lookahead, or Len(lines) + 1.
NextStop(lines, i, stops) ==
    Min({j \in (i + 1)..Len(lines) : lines[j].label \in stops} \cup {Len(lines) + 1})

RECURSIVE TrimLines(_)
TrimLines(ls) ==
    IF ls = <<>> THEN ls
    ELSE IF Head(ls) = <<>> THEN TrimLines(Tail(ls))
    ELSE IF ls[Len(ls)] = <<>> THEN TrimLines(SubSeq(ls, 1, Len(ls) - 1))
    ELSE ls

\* The text captured by  LABEL:\**\s*(.*?)(?=\s*\n\s*\**(?:stops)|$)  for the
\* label of line i, as the lines of the capture.  The greedy \s* runs over the
\* line break when nothing follows the label on its line, and the capture then
\* starts with the following lines; it stops before the next line that starts
\* with a label of the lookahead, but takes at least one character.
Captured(lines, i, stops) ==
    LET j == NextStop(lines, i, stops)
        own == <<lines[i].text>> \o [k \in 1..(j - 1 - i) |-> Render(lines[i + k])]
        k2 == NextStop(lines, j, stops)
    IN IF \E k \in 1..Len(own) : own[k] # <<>> THEN TrimLines(own)
       ELSE IF j <= Len(lines) THEN [k \in 1..(k2 - j) |-> Render(lines[j + k - 1])]
       ELSE <<>>

\* The token (\d+|R|F) at the start of the text, case-insensitive, or <<>>.
CostToken(text) ==
    IF text = <<>> THEN <<>>
    ELSE IF Head(text) \in Digits THEN SubSeq(text, 1, LeadingRun(text, Digits))
    ELSE IF Head(text) \in {"R", "r"} THEN <<"R">>
    ELSE IF Head(text) \in {"F", "f"} THEN <<"F">>
    ELSE <<>>

\* A variant of the validation that takes every number.
ParsedCostOfAnyNumber(costString) ==
    IF costString = <<"R">> THEN StrR
    ELSE IF costString = <<"F">> THEN StrF
    ELSE ParseIntChars(costString)

\* 'R' and 'F' are taken as they are; a number is taken when it is 1, 2 or 3;
\* otherwise the cost stays null.
ParsedCostOf(costString) ==
    IF costString = <<"R">> THEN StrR
    ELSE IF costString = <<"F">> THEN StrF
    ELSE IF InRange1to3(ParseIntChars(costString)) THEN ParseIntChars(costString)
    ELSE Null

\* What follows "COST:" and white space on line i: the text of the line, or
\* the next line of the response when the line ends after the label.
AfterCostLabel(lines, i) ==
    IF lines[i].text # <<>> THEN lines[i].text
    ELSE IF i < Len(lines) THEN Render(lines[i + 1])
    ELSE <<>>

\* costMatch[1] of the block regex (the first place in the response where the
\* COST pattern matches), or <<>>.
CostMatch(lines) ==
    LET hits == {i \in 1..Len(lines) :
                    lines[i].label = "COST" /\ CostToken(AfterCostLabel(lines, i)) # <<>>}
    IN IF hits = {} THEN <<>> ELSE CostToken(AfterCostLabel(lines, Min(hits)))

TrimRight(text) ==
    SubSeq(text, 1, Len(text) - LeadingRun([k \in 1..Len(text) |-> text[Len(text) + 1 - k]], {" "}))

\* text.replace(/\**LABEL:.*$/i, '') on the last line of a capture.
CutAtLabel(text, label) ==
    IF Includes(text, LabelText(label))
    THEN SubSeq(text, 1, IndexOf(text, LabelText(label)) - 1)
    ELSE text

RECURSIVE CutAtLabels(_, _)
CutAtLabels(text, labels) ==
    IF labels = <<>> THEN text
    ELSE CutAtLabels(CutAtLabel(text, Head(labels)), Tail(labels))

RECURSIVE JoinLines(_)
JoinLines(ls) ==
    IF ls = <<>> THEN <<>>
    ELSE IF Len(ls) = 1 THEN ls[1]
    ELSE ls[1] \o <<"\n">> \o JoinLines(Tail(ls))

\* The clean-up of a captured field: the labels are cut from the last line
\* (the pattern cannot run over a line break), then the text is trimmed.
CleanUp(capture, labels) ==
    IF capture = <<>> THEN <<>>
    ELSE JoinLines(TrimLines(
             [capture EXCEPT ![Len(capture)] = TrimRight(CutAtLabels(@, labels))]))

\* Primary strategy (block regexes): a suggestion when the action, the target
\* and a valid cost are found, else Null.
BlockParse(lines) ==
    LET a == FirstLabelled(lines, "ACTION")
        t == FirstLabelled(lines, "TARGET")
        action == IF a = 0 THEN <<>>
                  ELSE Captured(lines, a, {"TARGET", "COST", "Rationale", "NARRATIVE"})
        target == IF t = 0 THEN <<>>
                  ELSE Captured(lines, t, {"COST", "Rationale", "NARRATIVE"})
        costString == CostMatch(lines)
    IN IF /\ action # <<>>
          /\ target # <<>>
          /\ costString # <<>>
          /\ ParsedCostOf(costString) # Null
       THEN [description |-> CleanUp(action, <<"TARGET", "COST", "Rationale", "NARRATIVE">>),
             target |-> CleanUp(target, <<"COST", "Rationale", "NARRATIVE">>),
             cost |-> ParsedCostOf(costString)]
       ELSE Null

\* The text of the first line with the label that has text after it, or <<>>.
FirstText(lines, label) ==
    LET hits == {i \in 1..Len(lines) : lines[i].label = label /\ lines[i].text # <<>>}
    IN IF hits = {} THEN <<>> ELSE lines[Min(hits)].text

\* potentialCost: the cost of the first COST line that gives a valid one.
PotentialCost(lines) ==
    LET hits == {i \in 1..Len(lines) :
                    /\ lines[i].label = "COST"
                    /\ CostToken(lines[i].text) # <<>>
                    /\ ParsedCostOf(CostToken(lines[i].text)) # Null}
    IN IF hits = {} THEN Null ELSE ParsedCostOf(CostToken(lines[Min(hits)].text))

\* Fallback strategy (line by line).
LineParse(lines) ==
    LET potentialAction == FirstText(lines, "ACTION")
        potentialTarget == FirstText(lines, "TARGET")
        potentialCost == PotentialCost(lines)
    IN IF potentialAction # <<>> /\ potentialTarget # <<>>
       THEN [description |-> potentialAction, target |-> potentialTarget,
             cost |-> IF potentialCost # Null THEN potentialCost ELSE Num(1)]
       ELSE Null

ParseLLMSuggestionLines(lines) ==
    IF lines = <<>> THEN Null
    ELSE IF BlockParse(lines) # Null THEN BlockParse(lines)
    ELSE LineParse(lines)

\* Longest response of the parser's inputs, in lines.
MaxLines == 3

ActionTexts == {<<>>, <<"C", "l", "a", "w">>}
TargetTexts == {<<>>, <<"G", "o", "b">>}
CostTexts ==
    {<<>>, <<"1">>, <<"3">>, <<"0">>, <<"5">>, <<"1", "2">>, <<"r">>, <<"F">>,
     <<"t", "w", "o">>}
LineInputs ==
    {Line("ACTION", text) : text \in ActionTexts}
    \cup {Line("TARGET", text) : text \in TargetTexts}
    \cup {Line("COST", text) : text \in CostTexts}
    \cup {Line("none", <<"C", "l", "a", "w">>), Line("none", <<"2">>)}
ResponseInputs == UNION {[1..n -> LineInputs] : n \in 0..MaxLines}

InitParse ==
    /\ InitTurn
    /\ audited = FALSE
    /\ capacity = MaxTasks
    /\ identifyResult = Null
    /\ llmCost = Null
    /\ authoritativeCost = Unset
    /\ FormatIdle
    /\ responseString \in ResponseInputs
    /\ parsedSuggestion = Unset
    /\ MatchIdle
    /\ CallIdle
    /\ ChatIdle

Parse ==
    /\ parsedSuggestion = Unset
    /\ parsedSuggestion' = ParseLLMSuggestionLines(responseString)
    /\ UNCHANGED <<turnVars, costVars, formatVars, responseString, matchVars, identifiedTraits, llmCall, chat>>

NextParse == Parse

SpecParse == InitParse /\ [][NextParse]_vars

HasLabel(lines, label) == \E i \in 1..Len(lines) : lines[i].label = label

\* No place of the response gives a valid cost: no COST line is followed, on
\* its line or after the line break, by 1, 2, 3, R or F.
NoValidCost(lines) ==
    \A i \in 1..Len(lines) :
        lines[i].label = "COST"
            => \/ CostToken(AfterCostLabel(lines, i)) = <<>>
               \/ ParsedCostOf(CostToken(AfterCostLabel(lines, i))) = Null

\* C24: a response that has an ACTION and a TARGET label and no valid COST
\* is parsed into a suggestion with cost 1, not into null.
C24_DefaultCost ==
    (/\ parsedSuggestion # Unset
     /\ HasLabel(responseString, "ACTION")
     /\ HasLabel(responseString, "TARGET")
     /\ NoValidCost(responseString))
    => (parsedSuggestion # Null /\ parsedSuggestion.cost = Num(1))

\* C25: a non-null result of parseLLMSuggestion has cost 1, 2, 3, 'R' or 'F'.
C25_ParsedCostConcrete ==
    (parsedSuggestion # Unset /\ parsedSuggestion # Null)
        => parsedSuggestion.cost \in ConcreteCosts

\* C25 witness: a response whose COST line gives a number outside 1..3 has
\* been parsed into a suggestion.
C25_Witness ==
    /\ parsedSuggestion # Unset
    /\ parsedSuggestion # Null
    /\ \E i \in 1..Len(responseString) :
           /\ responseString[i].label = "COST"
           /\ responseString[i].text \in {<<"0">>, <<"5">>, <<"1", "2">>}

(***************************************************************************)
(* identifySuggestionTypeAndCost: the matching of catalog names in the     *)
(* description and the resolution of overlaps.  The description is a tuple *)
(* of characters made of letters, spaces, commas and colons (no quotes,    *)
(* parentheses or rank), so the clean-up steps and the parts of the regex  *)
(* for those are not exercised; a catalog entry is its name and its uuid.  *)
(***************************************************************************)
UpperCase ==
    <<"A", "B", "C", "D", "E", "F", "G", "H", "I", "J", "K", "L", "M",
      "N", "O", "P", "Q", "R", "S", "T", "U", "V", "W", "X", "Y", "Z">>
LowerCase ==
    <<"a", "b", "c", "d", "e", "f", "g", "h", "i", "j", "k", "l", "m",
      "n", "o", "p", "q", "r", "s", "t", "u", "v", "w", "x", "y", "z">>
ToLowerChar(c) ==
    IF \E k \in 1..Len(UpperCase) : UpperCase[k] = c
    THEN LowerCase[CHOOSE k \in 1..Len(UpperCase) : UpperCase[k] = c]
    ELSE c
ToLowerCase(text) == [k \in 1..Len(text) |-> ToLowerChar(text[k])]

StartsWith(text, prefix) ==
    Len(text) >= Len(prefix) /\ SubSeq(text, 1, Len(prefix)) = prefix

\* /[\s"',.:;+()[\]{}]/
WordBoundary == {" ", "\"", "'", ",", ".", ":", ";", "+", "(", ")", "[", "]", "{", "}"}

\* The characters outside [\w\s'-] among those of the descriptions.
NotNameChars == {",", ".", ":", ";", "+", "(", ")", "[", "]", "{", "}", "\"", "@", "|"}

\* cleanedDescription: a trailing [.,;:] and a leading "Strike" or "Strike:"
\* followed by white space are removed (the description has no surrounding
\* white space, no quotes, and does not start with Cast, Activate or Use).
CleanedDescription(text) ==
    LET cut == IF text # <<>> /\ text[Len(text)] \in {".", ",", ";", ":"}
               THEN TrimRight(SubSeq(text, 1, Len(text) - 1)) ELSE text
        lead == IF StartsWith(ToLowerCase(cut), <<"s", "t", "r", "i", "k", "e", ":">>)
                THEN 7
                ELSE IF StartsWith(ToLowerCase(cut), <<"s", "t", "r", "i", "k", "e">>)
                THEN 6 ELSE 0
        rest == Drop(cut, lead)
        spaces == LeadingRun(rest, {" "})
    IN IF lead > 0 /\ spaces > 0 THEN TrimRight(Drop(rest, spaces)) ELSE cut

\* actionNameMatch[1].trim() of  /^([\w\s'-]+)(?:\s*\(.*?\))?(?:\s*,?\s+.*)?$/
\* or the whole description when the pattern does not match: the longest run
\* of name characters from the start when it is the whole text or is followed
\* by a comma and white space; else the longest part of that run that is
\* followed by white space.
PrimaryActionName(text) ==
    LET run == LeadingRun(text, {text[k] : k \in 1..Len(text)} \ NotNameChars)
        cands == {k \in 1..(run - 1) : text[k + 1] = " "}
    IN IF run = Len(text) THEN text
       ELSE IF run > 0 /\ text[run + 1] = "," /\ run + 2 <= Len(text) /\ text[run + 2] = " "
       THEN TrimRight(SubSeq(text, 1, run))
       ELSE IF cands # {}
       THEN TrimRight(SubSeq(text, 1, CHOOSE k \in cands : \A j \in cands : j <= k))
       ELSE text

Match(startIndex, item) ==
    [startIndex |-> startIndex, endIndex |-> startIndex + Len(item.name),
     uuid |-> item.uuid, nameLength |-> Len(item.name)]

\* The start indices (from 0) of the occurrences of the name in the
\* description that stand between word boundaries.
Occurrences(descriptionLower, itemNameLower) ==
    {i \in 0..(Len(descriptionLower) - Len(itemNameLower)) :
        /\ SubSeq(descriptionLower, i + 1, i + Len(itemNameLower)) = itemNameLower
        /\ (i = 0 \/ descriptionLower[i] \in WordBoundary)
        /\ \/ i + Len(itemNameLower) = Len(descriptionLower)
           \/ descriptionLower[i + Len(itemNameLower) + 1] \in WordBoundary}

RECURSIVE Ascending(_)
Ascending(S) == IF S = {} THEN <<>> ELSE <<Min(S)>> \o Ascending(S \ {Min(S)})

\* The matches the forEach pushes for one catalog entry: the primary match
\* when the primary action name is the name or starts with it and a space,
\* and then no other; else the occurrences in the description, of which those
\* after an occurrence at index 0 are skipped.
MatchesOf(item, cleaned) ==
    LET itemNameLower == ToLowerCase(item.name)
        primaryActionNameLower == ToLowerCase(PrimaryActionName(cleaned))
        occ == Occurrences(ToLowerCase(cleaned), itemNameLower)
    IN IF \/ primaryActionNameLower = itemNameLower
          \/ StartsWith(primaryActionNameLower, itemNameLower \o <<" ">>)
       THEN <<Match(0, item)>>
       ELSE IF 0 \in occ THEN <<Match(0, item)>>
       ELSE [k \in 1..Cardinality(occ) |-> Match(Ascending(occ)[k], item)]

RECURSIVE PotentialMatches(_, _)
PotentialMatches(list, cleaned) ==
    IF list = <<>> THEN <<>>
    ELSE MatchesOf(Head(list), cleaned) \o PotentialMatches(Tail(list), cleaned)

\* A variant of the order that prefers the shorter name.
BeforeShorterFirst(a, b) ==
    IF (a.startIndex = 0) # (b.startIndex = 0) THEN a.startIndex = 0
    ELSE IF a.nameLength # b.nameLength THEN a.nameLength < b.nameLength
    ELSE a.startIndex < b.startIndex

\* The comparator of the sort is negative: primary (start 0) first, then the
\* longer name, then the earlier start.
Before(a, b) ==
    IF (a.startIndex = 0) # (b.startIndex = 0) THEN a.startIndex = 0
    ELSE IF a.nameLength # b.nameLength THEN a.nameLength > b.nameLength
    ELSE a.startIndex < b.startIndex

\* Array.prototype.sort is stable: a match is put before the first sorted one
\* it has to come before.
InsertSorted(sorted, m) ==
    LET later == {k \in 1..Len(sorted) : Before(m, sorted[k])}
        at == IF later = {} THEN Len(sorted) + 1 ELSE Min(later)
    IN SubSeq(sorted, 1, at - 1) \o <<m>> \o SubSeq(sorted, at, Len(sorted))

RECURSIVE SortMatches(_)
SortMatches(ms) ==
    IF ms = <<>> THEN <<>>
    ELSE InsertSorted(SortMatches(SubSeq(ms, 1, Len(ms) - 1)), ms[Len(ms)])

Span(m) == m.startIndex..(m.endIndex - 1)

\* A variant of the resolution that accepts every potential match.
ResolveOverlapsAcceptAll(ms, confirmed, coveredIndices) ==
    confirmed \o ms

\* The greedy resolution: a match is accepted when none of its indices is
\* covered, and then covers them.
RECURSIVE ResolveOverlaps(_, _, _)
ResolveOverlaps(ms, confirmed, coveredIndices) ==
    IF ms = <<>> THEN confirmed
    ELSE IF Span(Head(ms)) \cap coveredIndices # {}
    THEN ResolveOverlaps(Tail(ms), confirmed, coveredIndices)
    ELSE ResolveOverlaps(Tail(ms), Append(confirmed, Head(ms)),
                         coveredIndices \cup Span(Head(ms)))

\* The array confirmedMatches as a value of the model.
Accepted(ms) == [t |-> "matches", list |-> ms]

\* confirmedMatches.sort((a, b) => a.startIndex - b.startIndex), in place,
\* before the linked description is built.
RECURSIVE ByStartIndex(_)
ByStartIndex(ms) ==
    IF ms = <<>> THEN <<>>
    ELSE LET first == Min({k \in 1..Len(ms) : \A j \in 1..Len(ms) : ms[k].startIndex <= ms[j].startIndex})
         IN <<ms[first]>> \o ByStartIndex(SubSeq(ms, 1, first - 1) \o SubSeq(ms, first + 1, Len(ms)))

ConfirmedMatches(text, list) ==
    ByStartIndex(ResolveOverlaps(SortMatches(PotentialMatches(list, CleanedDescription(text))), <<>>, {}))

\* primaryActionInfo: the accepted match that starts at 0, else the first.
PrimaryActionInfo(ms) ==
    IF \E k \in 1..Len(ms) : ms[k].startIndex = 0
    THEN ms[Min({k \in 1..Len(ms) : ms[k].startIndex = 0})]
    ELSE IF ms # <<>> THEN ms[1] ELSE Null

\* Longest description of the inputs, in words.
MaxWords == 3

Power == <<"P", "o", "w", "e", "r">>
Strike == <<"S", "t", "r", "i", "k", "e">>
PowerStrike == Power \o <<" ">> \o Strike
Words == {Power, Strike, <<"t", "h", "e">>}
Separators == {<<" ">>, <<",", " ">>, <<":", " ">>}

RECURSIVE Texts(_)
Texts(n) ==
    IF n = 1 THEN Words
    ELSE {t \o sep \o w : t \in Texts(n - 1), sep \in Separators, w \in Words}

PowerStrikeTheGoblin ==
    PowerStrike \o <<" ", "t", "h", "e", " ", "g", "o", "b", "l", "i", "n">>

PowerPlusPower == Power \o <<" ", "+", " ">> \o Power

DescriptionInputs ==
    UNION {Texts(n) : n \in 1..MaxWords} \cup {PowerStrikeTheGoblin, PowerPlusPower}

\* The catalog: the entries whose uuid is chosen, longest names first (the
\* master list is sorted by name length); two entries share the name Strike.
Entry(name, n, type, traits, cost) ==
    [name |-> name, uuid |-> <<"u", n>>, type |-> type, traits |-> traits, cost |-> cost]
CatalogEntries ==
    <<Entry(PowerStrike, "1", "action", {}, Num(2)), Entry(Strike, "2", "strike", {}, Null),
      Entry(Strike, "3", "strike", {"agile"}, Null), Entry(Power, "4", "action", {}, Null)>>

RECURSIVE Chosen(_, _)
Chosen(entries, uuids) ==
    IF entries = <<>> THEN <<>>
    ELSE IF Head(entries).uuid \in uuids THEN <<Head(entries)>> \o Chosen(Tail(entries), uuids)
    ELSE Chosen(Tail(entries), uuids)

CatalogInputs ==
    {Chosen(CatalogEntries, uuids) : uuids \in SUBSET {CatalogEntries[k].uuid : k \in 1..4}}

InitMatch ==
    /\ InitTurn
    /\ audited = FALSE
    /\ capacity = MaxTasks
    /\ identifyResult = Null
    /\ llmCost = Null
    /\ authoritativeCost = Unset
    /\ FormatIdle
    /\ ParseIdle
    /\ suggestedText \in DescriptionInputs
    /\ masterItemList \in CatalogInputs
    /\ confirmedMatches = Unset
    /\ identifiedTraits = Unset
    /\ CallIdle
    /\ ChatIdle

Identify ==
    /\ confirmedMatches = Unset
    /\ confirmedMatches' = Accepted(ConfirmedMatches(suggestedText, masterItemList))
    /\ UNCHANGED <<turnVars, costVars, formatVars, parseVars, suggestedText, masterItemList, identifiedTraits, llmCall, chat>>

NextMatch == Identify

SpecMatch == InitMatch /\ [][NextMatch]_vars

NamesAtStart ==
    {k \in 1..Len(masterItemList) :
        0 \in Occurrences(ToLowerCase(CleanedDescription(suggestedText)),
                          ToLowerCase(masterItemList[k].name))}

\* C27: when catalog names stand at index 0 of the description, the accepted
\* primary match (the accepted match that starts at 0) is the longest of
\* them, and no other accepted match lies in its span: a shorter name it
\* contains is not accepted there.
C27_LongerIsPrimary ==
    (confirmedMatches # Unset /\ NamesAtStart # {}) =>
        \E p \in 1..Len(confirmedMatches.list) :
            /\ confirmedMatches.list[p] = PrimaryActionInfo(confirmedMatches.list)
            /\ confirmedMatches.list[p].startIndex = 0
            /\ \A k \in NamesAtStart :
                   Len(masterItemList[k].name) <= confirmedMatches.list[p].nameLength
            /\ \A q \in 1..Len(confirmedMatches.list) :
                   q # p => Span(confirmedMatches.list[q]) \cap Span(confirmedMatches.list[p]) = {}

\* C27 witness: 'Power Strike the goblin' with 'Power Strike' and 'Strike' in
\* the catalog: 'Power Strike' is the only accepted match.
C27_Witness ==
    /\ confirmedMatches # Unset
    /\ suggestedText = PowerStrikeTheGoblin
    /\ masterItemList = <<CatalogEntries[1], CatalogEntries[2]>>
    /\ confirmedMatches.list = <<Match(0, CatalogEntries[1])>>
    /\ PrimaryActionInfo(confirmedMatches.list).uuid = CatalogEntries[1].uuid

(***************************************************************************)
(* The result of identifySuggestionTypeAndCost, the text on the buttons    *)
(* and the end-to-end scenario of the Claw strike.                         *)
(***************************************************************************)
\* The catalog entry with the uuid (fromUuid).
EntryOf(uuid, list) == list[Min({k \in 1..Len(list) : list[k].uuid = uuid})]

\* `@UUID[${match.uuid}]{${match.itemName}}`
LinkText(m, list) ==
    <<"@", "U", "U", "I", "D", "[">> \o m.uuid \o <<"]", "{">> \o EntryOf(m.uuid, list).name \o <<"}">>

\* linkedDescriptionBuilder.join(''): the text between the accepted matches,
\* each match replaced by its link.
RECURSIVE ModifiedDescriptionWithActionLink(_, _, _, _)
ModifiedDescriptionWithActionLink(cleaned, ms, lastIndexProcessed, list) ==
    IF ms = <<>> THEN Drop(cleaned, lastIndexProcessed)
    ELSE SubSeq(cleaned, lastIndexProcessed + 1, Head(ms).startIndex)
             \o LinkText(Head(ms), list)
             \o ModifiedDescriptionWithActionLink(cleaned, Tail(ms), Head(ms).endIndex, list)

\* originalPartsRegex  /\s*\+\s*|\s*,\s*then\s*|\s+then\s+/i
OriginalParts(cleaned) ==
    LET lower == ToLowerCase(cleaned)
        then == {i \in 1..(Len(lower) - 3) : SubSeq(lower, i, i + 3) = <<"t", "h", "e", "n">>}
    IN \/ Includes(lower, <<"+">>)
       \/ \E i \in then :
              \/ \E j \in 1..(i - 1) :
                     lower[j] = "," /\ \A k \in (j + 1)..(i - 1) : lower[k] = " "
              \/ i > 1 /\ lower[i - 1] = " " /\ i + 4 <= Len(lower) /\ lower[i + 4] = " "

\* A variant of the result that leaves a strike's traits as the item has them.
OverallResultNoAttackTrait(text, list) ==
    LET cleaned == CleanedDescription(text)
        ms == ConfirmedMatches(text, list)
        primaryActionInfo == PrimaryActionInfo(ms)
        item == EntryOf(primaryActionInfo.uuid, list)
    IN [actualActionCost |-> IF primaryActionInfo = Null THEN Null ELSE item.cost,
        costSource |-> "LLM", traits |-> IF primaryActionInfo = Null THEN {} ELSE item.traits,
        isCombo |-> FALSE,
        modifiedDescriptionWithActionLink |-> ModifiedDescriptionWithActionLink(cleaned, ms, 0, list)]

\* overallResult: the cost, its source and the traits of the primary action
\* (a strike costs 1 and is an attack, a consumable without cost costs 1), the
\* linked description and the combo mark.  Without a primary action the cost
\* is left to the LLM and the description is an attack when it says so.
OverallResult(text, list) ==
    LET cleaned == CleanedDescription(text)
        ms == ConfirmedMatches(text, list)
        primaryActionInfo == PrimaryActionInfo(ms)
        item == EntryOf(primaryActionInfo.uuid, list)
        cost == IF item.type = "strike" THEN Num(1)
                ELSE IF item.type = "consumable" /\ item.cost = Null THEN Num(1)
                ELSE item.cost
        saysAttack == \/ Includes(ToLowerCase(cleaned), ToLowerCase(Strike))
                      \/ Includes(ToLowerCase(cleaned), <<"a", "t", "t", "a", "c", "k">>)
    IN IF cleaned = <<>>
       THEN [actualActionCost |-> Null, costSource |-> "LLM", traits |-> {},
             isCombo |-> FALSE, modifiedDescriptionWithActionLink |-> cleaned]
       ELSE IF primaryActionInfo # Null
       THEN [actualActionCost |-> cost,
             costSource |-> IF item.type = "consumable" THEN "Consumable Item"
                            ELSE IF cost # Null THEN "Action/Feat/Spell Item"
                            ELSE "LLM",
             traits |-> item.traits \cup (IF item.type = "strike" THEN {"attack"} ELSE {}),
             isCombo |-> OriginalParts(cleaned) /\ Len(ms) > 1,
             modifiedDescriptionWithActionLink |->
                 ModifiedDescriptionWithActionLink(cleaned, ms, 0, list)]
       ELSE [actualActionCost |-> Null, costSource |-> "LLM",
             traits |-> IF saysAttack THEN {"attack"} ELSE {},
             isCombo |-> FALSE, modifiedDescriptionWithActionLink |-> cleaned]

\* rationaleMatch[1] and narrativeMatch[1] of the block regexes, cleaned as
\* the primary strategy cleans them.
ParsedRationale(lines) ==
    IF FirstLabelled(lines, "Rationale") = 0 THEN <<>>
    ELSE CleanUp(Captured(lines, FirstLabelled(lines, "Rationale"),
                          {"ACTION", "TARGET", "COST", "NARRATIVE"}),
                 <<"ACTION", "TARGET", "COST", "NARRATIVE">>)

ParsedNarrative(lines) ==
    IF FirstLabelled(lines, "NARRATIVE") = 0 THEN <<>>
    ELSE CleanUp(Captured(lines, FirstLabelled(lines, "NARRATIVE"), {}),
                 <<"ACTION", "TARGET", "COST", "Rationale">>)

\* fullDescriptionForEncoding: the linked description and the target, the
\* rationale and the narrative that are present.
FullDescriptionForEncoding(description, target, rationale, narrative) ==
    description
      \o (IF target # <<>> THEN <<" ", "|", " ">> \o LabelText("TARGET") \o <<" ">> \o target ELSE <<>>)
      \o (IF rationale # <<>> THEN <<" ", "|", " ">> \o LabelText("Rationale") \o <<" ">> \o rationale ELSE <<>>)
      \o (IF narrative # <<>> THEN <<" ", "|", " ">> \o LabelText("NARRATIVE") \o <<" ">> \o narrative ELSE <<>>)

\* The characters of the texts that encodeURIComponent escapes, with their
\* codes.
Escapes ==
    {<<" ", <<"2", "0">>>>, <<"|", <<"7", "C">>>>, <<":", <<"3", "A">>>>,
     <<"[", <<"5", "B">>>>, <<"]", <<"5", "D">>>>, <<"{", <<"7", "B">>>>,
     <<"}", <<"7", "D">>>>, <<"@", <<"4", "0">>>>, <<",", <<"2", "C">>>>,
     <<"+", <<"2", "B">>>>, <<"%", <<"2", "5">>>>}

\* The concatenation of the texts of a tuple.
RECURSIVE Flatten(_)
Flatten(parts) ==
    IF parts = <<>> THEN <<>>
    ELSE IF Len(parts) = 1 THEN parts[1]
    ELSE Flatten(SubSeq(parts, 1, Len(parts) \div 2))
             \o Flatten(SubSeq(parts, Len(parts) \div 2 + 1, Len(parts)))

EncodeURIComponent(text) ==
    Flatten([k \in 1..Len(text) |->
                IF \E e \in Escapes : e[1] = text[k]
                THEN <<"%">> \o (CHOOSE e \in Escapes : e[1] = text[k])[2]
                ELSE <<text[k]>>])

\* decodeURIComponent of an encoded text: every escape gives its character.
DecodeURIComponent(text) ==
    LET escape(i) == /\ i >= 1 /\ i + 2 <= Len(text) /\ text[i] = "%"
                     /\ \E e \in Escapes : e[2] = SubSeq(text, i + 1, i + 2)
    IN Flatten([i \in 1..Len(text) |->
                   IF escape(i - 1) \/ escape(i - 2) THEN <<>>
                   ELSE IF escape(i)
                   THEN <<(CHOOSE e \in Escapes : e[2] = SubSeq(text, i + 1, i + 2))[1]>>
                   ELSE <<text[i]>>])

\* The reply, the catalog and the turn state of the scenario.
Claw == <<"C", "l", "a", "w">>
ClawReply ==
    <<Line("ACTION", Claw),
      Line("TARGET", <<"G", "o", "b", "l", "i", "n", " ", "[", "I", "D", ":", " ", "t", "o", "k", "1", "]">>),
      Line("COST", <<"1">>),
      Line("Rationale", <<"i", "n", " ", "r", "a", "n", "g", "e">>),
      Line("NARRATIVE", <<"s", "l", "a", "s", "h", "e", "s">>)>>
ClawCatalog ==
    <<[name |-> Claw, uuid |-> <<"I", "t", "e", "m", ".", "c", "1">>, type |-> "strike",
       traits |-> {"agile"}, cost |-> Null]>>

\* The scenario up to the buttons: the parsed suggestion, the result of the
\* resolver, the arbitrated cost and the description the buttons carry.
ClawSuggestion == ParseLLMSuggestionLines(ClawReply)
ClawIdentified == OverallResult(ClawSuggestion.description, ClawCatalog)
ClawAuthoritativeCost == DetermineAuthoritativeCost(ClawIdentified, ClawSuggestion.cost)
ClawEncodedDesc ==
    EncodeURIComponent(FullDescriptionForEncoding(
        ClawIdentified.modifiedDescriptionWithActionLink, ClawSuggestion.target,
        ParsedRationale(ClawReply), ParsedNarrative(ClawReply)))
\* The result of the resolver on the description of the Confirm button.
ClawReidentified == OverallResult(DecodeURIComponent(ClawEncodedDesc), ClawCatalog)

\* The resolver of the turn model gives the result of the resolver on the
\* characters.
SameResult(abstract, result) ==
    /\ abstract.actualActionCost = result.actualActionCost
    /\ abstract.costSource = result.costSource
    /\ abstract.isCombo = result.isCombo
    /\ abstract.traits = result.traits

ClawScenarioResolved ==
    /\ ClawSuggestion # Null
    /\ ClawSuggestion.description = Claw /\ ClawSuggestion.cost = Num(1)
    /\ PrimaryActionInfo(ConfirmedMatches(Claw, ClawCatalog)) = Match(0, ClawCatalog[1])
    /\ ClawIdentified.actualActionCost = Num(1)
    /\ ClawAuthoritativeCost = Num(1)
    /\ NumericCostForValidation(ClawAuthoritativeCost) = 1
    /\ DecodeURIComponent(ClawEncodedDesc) # ClawEncodedDesc
    /\ ClawReidentified.traits = {"agile", "attack"}
    /\ SameResult(IdentifySuggestionTypeAndCost("Claw"), ClawIdentified)
    /\ SameResult(IdentifySuggestionTypeAndCost("Claw"), ClawReidentified)

\* A confirmation of Claw at cost 1 read with 3 actions and MAP 0 is saved.
C28_ClawSaved ==
    /\ event'.kind = "confirmed"
    /\ \E t \in InFlight :
           /\ t.pc = "confirmIdentify" /\ t.description = "Claw" /\ t.cost = Num(1)
           /\ t.ts.actionsRemaining = 3 /\ t.ts.currentMAP = 0
           /\ tasks' = With(Without(t), [t EXCEPT !.pc = "confirmMAP", !.ts = turnState'])

\* The MAP is updated for a confirmed Claw when it is 0.
C28_ClawMAP ==
    /\ event'.kind \in {"mapUpdated", "mapKept"}
    /\ turnState # NoState /\ turnState.currentMAP = 0
    /\ \E t \in InFlight :
           /\ t.pc = "confirmMAP" /\ t.description = "Claw"
           /\ tasks' = With(Without(t), [t EXCEPT !.pc = "confirmDelay"])

\* C28: for the reply 'ACTION: Claw / TARGET: Goblin [ID: tok1] / COST: 1'
\* and a catalog with the agile strike Claw, the primary match is Claw and the
\* arbitrated cost is 1; the suggestion presented for it with 3 actions left
\* costs 1, and confirming it from {actionsRemaining 3, currentMAP 0} saves
\* actionsRemaining 2 and then sets currentMAP to 4.
C28_EndToEndStep ==
    /\ \A card \in cards' \ cards : card.description = "Claw" => card.cost = Num(1)
    /\ C28_ClawSaved => turnState'.actionsRemaining = 2 /\ turnState'.currentMAP = 0
    /\ C28_ClawMAP => /\ turnState'.currentMAP = 4
                      /\ turnState'.actionsRemaining = turnState.actionsRemaining
                      /\ event' = [kind |-> "mapUpdated", agile |-> TRUE, from |-> 0, to |-> 4]
C28_EndToEnd == ClawScenarioResolved /\ [][C28_EndToEndStep]_vars

\* C28 witness: Claw was confirmed on a fresh turn and its MAP update is done.
C28_Witness ==
    /\ event = [kind |-> "mapUpdated", agile |-> TRUE, from |-> 0, to |-> 4]
    /\ turnState # NoState
    /\ turnState.actionsRemaining = 2 /\ turnState.currentMAP = 4
    /\ turnState.actionsTakenDescriptions = <<"Claw">>

\* C29: a Confirm click on the card of a suggestion whose arbitrated cost is
\* 'R' or 'F', on the combatant's turn and with the turn state present, is
\* not refused as a cost error.
C29_FreeConfirmAccepted ==
    [][\A card \in cards :
           (/\ cards = {card}
            /\ card.cost \in {StrR, StrF}
            /\ current = AI
            /\ turnState # NoState) => event'.kind # "costError"]_vars

\* C30: a suggestion presented by a request that Retry Turn started (after a
\* zero-action start, with actions computed above 0) can be confirmed while
\* it is the combatant's turn: the click on its card is not refused.
C30_RetryThenConfirm ==
    [][\A card \in cards :
           (/\ event.kind = "presented" /\ event.viaRetry
            /\ cards = {card}
            /\ card.cost \in {Num(1), Num(2), Num(3)}
            /\ card.cost.n <= event.actionsRemaining
            /\ current = AI
            /\ tasks = EmptyBag) => event'.kind # "confirmRefused"]_vars

\* C31: when a reply of a cycle that continues the turn (after a Confirm or
\* a Skip) names a purely passive ability and the replacement request is
\* entered, the new cycle has the actionsRemaining, the currentMAP
\* and the action history of the rejected cycle.
C31_PassiveKeepsState ==
    [][(event'.kind = "rerequest" /\ event'.why = "passive" /\ event'.entered)
           => \A t \in InFlight, u \in BagToSet(tasks') :
                  (/\ t.pc = "llm" /\ t.updated
                   /\ u.pc \in {"gather", "summary"} /\ CopiesIn(u, tasks) = 0)
                      => /\ u.ts.actionsRemaining = t.ts.actionsRemaining
                         /\ u.ts.currentMAP = t.ts.currentMAP
                         /\ u.ts.actionsTakenDescriptions = t.ts.actionsTakenDescriptions]_vars

(***************************************************************************)
(* The traits at presentation and at confirmation.  requestNextAISuggestion *)
(* identifies parsedSuggestion.description; _onConfirmActionClick           *)
(* identifies the decoded text of the button, which also holds the target,  *)
(* the rationale and the narrative.                                         *)
(***************************************************************************)
Stride == <<"S", "t", "r", "i", "d", "e">>
TraitActions == {Claw, Stride}
TraitTargets == {<<"G", "o", "b">>, <<"C", "l", "a", "w">>}
TraitRationales == {<<>>, <<"i", "n", " ", "r", "a", "n", "g", "e">>, <<"t", "o", " ", "a", "t", "t", "a", "c", "k">>, <<"C", "l", "a", "w", " ", "n", "e", "x", "t">>}
TraitNarratives == {<<>>, <<"s", "l", "a", "s", "h", "e", "s">>, <<"s", "t", "r", "i", "k", "e", "s">>}

\* The lines of a reply with the fields that are present.
ReplyLines(action, target, rationale, narrative) ==
    <<Line("ACTION", action), Line("TARGET", target), Line("COST", <<"1">>)>>
        \o (IF rationale = <<>> THEN <<>> ELSE <<Line("Rationale", rationale)>>)
        \o (IF narrative = <<>> THEN <<>> ELSE <<Line("NARRATIVE", narrative)>>)

TraitReplies ==
    {ReplyLines(a, t, r, n) : a \in TraitActions, t \in TraitTargets,
                              r \in TraitRationales, n \in TraitNarratives}

\* The text _onConfirmActionClick reads from the button of the suggestion.
ActionDescription(lines, list) ==
    DecodeURIComponent(EncodeURIComponent(FullDescriptionForEncoding(
        OverallResult(ParseLLMSuggestionLines(lines).description, list).modifiedDescriptionWithActionLink,
        ParseLLMSuggestionLines(lines).target, ParsedRationale(lines), ParsedNarrative(lines))))

InitTraits ==
    /\ InitTurn
    /\ audited = FALSE
    /\ capacity = MaxTasks
    /\ identifyResult = Null
    /\ llmCost = Null
    /\ authoritativeCost = Unset
    /\ FormatIdle
    /\ responseString \in TraitReplies
    /\ parsedSuggestion = Unset
    /\ suggestedText = <<>>
    /\ masterItemList \in {<<>>, ClawCatalog}
    /\ confirmedMatches = Unset
    /\ identifiedTraits = Unset
    /\ CallIdle
    /\ ChatIdle

\* requestNextAISuggestion: the reply is parsed and its description identified.
PresentTraits ==
    /\ parsedSuggestion = Unset
    /\ parsedSuggestion' = ParseLLMSuggestionLines(responseString)
    /\ identifyResult' = OverallResult(ParseLLMSuggestionLines(responseString).description,
                                       masterItemList)
    /\ UNCHANGED <<turnVars, llmCost, authoritativeCost, formatVars, responseString,
                   matchVars, identifiedTraits, llmCall, chat>>

\* _onConfirmActionClick: the text of the button is identified again.
ConfirmTraits ==
    /\ parsedSuggestion # Unset
    /\ identifiedTraits = Unset
    /\ identifiedTraits' = [traits |-> OverallResult(ActionDescription(responseString, masterItemList),
                                                     masterItemList).traits]
    /\ UNCHANGED <<turnVars, costVars, formatVars, parseVars, matchVars, llmCall, chat>>

NextTraits == PresentTraits \/ ConfirmTraits

SpecTraits == InitTraits /\ [][NextTraits]_vars

\* C32: the traits that decide the MAP update of a confirmation hold
\* 'attack' exactly when the traits resolved at the presentation do.
C32_SameAttackTrait ==
    identifiedTraits # Unset =>
        ("attack" \in identifiedTraits.traits <=> "attack" \in identifyResult.traits)

(***************************************************************************)
(* A turn whose suggestion card is rendered more than once: the overrides  *)
(* of the other rendering interleave with the steps of a confirmation.     *)
(***************************************************************************)
NextOverride ==
    \/ AdvanceTurn
    \/ UpdateCombatHook
    \/ AcceptClick
    \/ AcceptSetTurnState
    \/ AcceptUnsetCache
    \/ AcceptRequest
    \/ Gathered
    \/ TurnComplete
    \/ Arbitrated
    \/ ConfirmClick
    \/ ConfirmSave
    \/ ConfirmUpdateMAP
    \/ ConfirmRequest
    \/ ManualMAPAdjust
    \/ ManualMAPAdjustOtherView

SpecOverride == Init /\ [][NextOverride]_vars

\* C33: when the write of a confirmation follows a manual override, the
\* saved state holds the override value as its currentMAP.
C33_OverrideSurvivesSave ==
    [][(event.kind = "mapOverride" /\ event'.kind = "confirmed")
           => turnState'.currentMAP = event.to]_vars

\* The conditions under which _onManualMAPAdjust writes the value of a radio.
MAPAdjustAccepted(mapValue) ==
    /\ mapValue \in {0, 4, 5, 8, 10}
    /\ current = AI
    /\ isProcessing
    /\ turnState # NoState

\* C34: while a suggestion of the active combatant is on display, an override
\* to any of 0, 4, 5, 8, 10 is accepted and any other value is refused.
C34_OverrideAccepted ==
    (cards # {} /\ current = AI)
        => \A mapValue \in MapInputs :
               MAPAdjustAccepted(mapValue) <=> mapValue \in {0, 4, 5, 8, 10}

(***************************************************************************)
(* The skipped action                                                      *)
(***************************************************************************)
\* The invocations that a step starts or moves to a new position.
Started(u) == CopiesIn(u, tasks) < CopiesIn(u, tasks')
\* The invocations that a step ends or moves on.
Resumed(t) == CopiesIn(t, tasks') < CopiesIn(t, tasks)

C35_SkippedStep ==
    \* the request a Skip makes carries the description of the skipped card
    /\ \A t \in InFlight :
           (t.pc = "skipDelay" /\ Resumed(t) /\ current = AI)
               => \E u \in BagToSet(tasks') :
                      /\ Started(u)
                      /\ u.pc \in {"gather", "summary"}
                      /\ u.skipped = t.skipped
                      /\ u.skipped \in Descriptions
    \* no other request carries the description of a card
    /\ \A u \in BagToSet(tasks') :
           (Started(u) /\ u.pc \in {"gather", "summary"} /\ u.skipped \in Descriptions)
               => \E t \in InFlight : t.pc = "skipDelay" /\ Resumed(t) /\ t.skipped = u.skipped
    \* once the prompt is crafted the request holds it no longer
    /\ \A u \in BagToSet(tasks') :
           (Started(u) /\ u.pc \notin {"gather", "summary", "skipDelay"}) => u.skipped = "none"

\* C35: the description of a skipped suggestion is handed to the request that
\* the Skip makes, whose prompt is the next one crafted for the combatant, and
\* to no other request: the requests made by Accept, Confirm and Retry and
\* the automatic re-requests carry none, or the rejected reply instead.
C35_SkippedOnce ==
    [][C35_SkippedStep]_vars

\* C35 witness: the request of a Skip is gathering the state for its prompt
\* and carries the description of the skipped card.
C35_Witness ==
    /\ current = AI
    /\ \E t \in InFlight : t.pc = "gather" /\ t.skipped \in Descriptions

(***************************************************************************)
(* callLLM: up to MAX_RETRIES fetch attempts.  llmCall holds the position  *)
(* of the call, the loop counter, the outcomes of the fetches made so far  *)
(* and, once the call has ended, what it returned or threw.                *)
(***************************************************************************)
MAX_RETRIES == 3

FailedToFetch == <<"F", "a", "i", "l", "e", "d", " ", "t", "o", " ", "f", "e", "t", "c", "h">>
NetworkErrorText == <<"N", "e", "t", "w", "o", "r", "k", "E", "r", "r", "o", "r">>
ApiErrorText == <<"L", "L", "M", " ", "A", "P", "I", " ", "E", "r", "r", "o", "r">>
TimedOutText == <<"L", "L", "M", " ", "r", "e", "q", "u", "e", "s", "t", " ", "t", "i", "m", "e", "d", " ", "o", "u", "t">>

\* What one fetch can come to: a response, the abort of the 30 s timer, or a
\* rejection with some other error.
Statuses == {200, 401, 429, 500, 503}
Bodies == {"content", "empty", "noChoices", "notJSON"}
ErrorMessages == {FailedToFetch, <<"N", "e", "t", "w", "o", "r", "k", "E", "r", "r", "o", "r", " ", "w", "h", "e", "n", " ", "a", "t", "t", "e", "m", "p", "t", "i", "n", "g", " ", "t", "o", " ", "f", "e", "t", "c", "h", " ", "r", "e", "s", "o", "u", "r", "c", "e", ".">>, <<"L", "o", "a", "d", " ", "f", "a", "i", "l", "e", "d">>}
Response(status, body) == [kind |-> "response", status |-> status, body |-> body]
JSError(name, message) == [kind |-> "error", name |-> name, message |-> message]
FetchOutcomes ==
    {Response(200, b) : b \in Bodies}
        \cup {Response(s, "content") : s \in Statuses \ {200}}
        \cup {JSError("AbortError", <<"T", "h", "e", " ", "u", "s", "e", "r", " ", "a", "b", "o", "r", "t", "e", "d", " ", "a", " ", "r", "e", "q", "u", "e", "s", "t", ".">>)}
        \cup {JSError("TypeError", m) : m \in ErrorMessages}

\* response.ok
Ok(status) == status >= 200 /\ status <= 299
\* A variant that takes no status for a client error.
ClientErrorNever(status) == FALSE
\* response.status >= 400 && response.status < 500
ClientError(status) == status >= 400 /\ status < 500

\* The content of the body used in the model and what trim() makes of it.
MessageContent == <<" ", "A", "C", "T", "I", "O", "N", ":", " ", "S", "t", "r", "i", "k", "e", " ">>
Trim(text) ==
    LET lead == LeadingRun(text, {" "})
    IN TrimRight(SubSeq(text, lead + 1, Len(text)))

Returned(value) == [t |-> "returned", value |-> value]
Threw(message) == [t |-> "threw", message |-> message]

Call(pc, configured, attempt, fetches, result) ==
    [pc |-> pc, configured |-> configured, attempt |-> attempt, fetches |-> fetches,
     result |-> result]

\* The loop goes on with the next attempt (continue), or the call ends.
Continue(call, outcome) ==
    Call("loop", TRUE, call.attempt + 1, Append(call.fetches, outcome), Unset)
End(call, outcome, result) ==
    Call("done", TRUE, call.attempt, Append(call.fetches, outcome), result)

\* The catch block of an attempt.
Caught(call, outcome, error) ==
    IF error.name = "AbortError"
    THEN IF call.attempt < MAX_RETRIES - 1 THEN Continue(call, outcome)
         ELSE End(call, outcome, Threw(TimedOutText))
    ELSE IF Includes(error.message, FailedToFetch) \/ Includes(error.message, NetworkErrorText)
    THEN IF call.attempt < MAX_RETRIES - 1 THEN Continue(call, outcome)
         ELSE End(call, outcome, Threw(error.message))
    ELSE End(call, outcome, Threw(error.message))

\* The try block of an attempt whose fetch came to the given outcome.
Attempt(call, outcome) ==
    IF outcome.kind = "error" THEN Caught(call, outcome, outcome)
    ELSE IF ~Ok(outcome.status)
    THEN IF ClientError(outcome.status)
         THEN Caught(call, outcome, JSError("Error", ApiErrorText))
         ELSE IF call.attempt < MAX_RETRIES - 1 THEN Continue(call, outcome)
         ELSE Caught(call, outcome, JSError("Error", ApiErrorText))
    ELSE IF outcome.body = "notJSON"
    THEN Caught(call, outcome, JSError("SyntaxError", <<"U", "n", "e", "x", "p", "e", "c", "t", "e", "d", " ", "t", "o", "k", "e", "n">>))
    ELSE IF outcome.body \in {"empty", "noChoices"} THEN End(call, outcome, Returned(Null))
    ELSE End(call, outcome, Returned(Str(Trim(MessageContent))))

InitLLM ==
    /\ InitTurn
    /\ audited = FALSE
    /\ capacity = MaxTasks
    /\ identifyResult = Null
    /\ llmCost = Null
    /\ authoritativeCost = Unset
    /\ FormatIdle
    /\ ParseIdle
    /\ MatchIdle
    /\ llmCall \in {Call("called", configured, 0, <<>>, Unset) : configured \in BOOLEAN}
    /\ ChatIdle

\* The parameter check at the head of callLLM.
CallLLM ==
    /\ llmCall # Unset
    /\ llmCall.pc = "called"
    /\ llmCall' = IF llmCall.configured THEN [llmCall EXCEPT !.pc = "loop"]
                  ELSE [llmCall EXCEPT !.pc = "done", !.result = Returned(Null)]
    /\ UNCHANGED <<turnVars, costVars, formatVars, parseVars, matchVars, identifiedTraits, chat>>

\* One pass of the loop: the fetch settles or is aborted, and the attempt
\* returns, throws, or waits and goes on with the next one.
FetchAttempt ==
    \E outcome \in FetchOutcomes :
        /\ llmCall # Unset
        /\ llmCall.pc = "loop"
        /\ llmCall.attempt < MAX_RETRIES
        /\ llmCall' = Attempt(llmCall, outcome)
        /\ UNCHANGED <<turnVars, costVars, formatVars, parseVars, matchVars, identifiedTraits, chat>>

NextLLM == CallLLM \/ FetchAttempt

SpecLLM == InitLLM /\ [][NextLLM]_vars

\* Every fetch settles or is aborted by the timer after 30 s, and the waits
\* between the attempts are finite: a call that can take a step takes it.
SpecLLMLive == SpecLLM /\ WF_vars(NextLLM)

\* The outcomes after which the claim allows another attempt.
Retriable(outcome) ==
    \/ outcome.kind = "response" /\ outcome.status >= 500 /\ outcome.status <= 599
    \/ outcome.kind = "error" /\ outcome.name = "AbortError"
    \/ outcome.kind = "error" /\ outcome.name = "TypeError"

C40_Bounded ==
    /\ Len(llmCall.fetches) <= 3
    /\ \A i \in 1..(Len(llmCall.fetches) - 1) : Retriable(llmCall.fetches[i])
    /\ llmCall.pc = "done"
           => \/ llmCall.result = Returned(Null)
              \/ llmCall.result.t = "threw"
              \/ llmCall.result.t = "returned" /\ llmCall.result.value.t = "str"
    /\ llmCall.pc # "done" => llmCall.result = Unset

ChainStep ==
    \/ Gathered
    \/ GatherFailed
    \/ ZeroActionStart
    \/ LLMFailed
    \/ LLMSuggestsPassive
    \/ PrerequisiteFailed
    \/ Arbitrated

NextChain ==
    \/ AdvanceTurn
    \/ UpdateCombatHook
    \/ AcceptClick
    \/ AcceptSetTurnState
    \/ AcceptUnsetCache
    \/ AcceptRequest
    \/ ChainStep

SpecChainLive == Init /\ [][NextChain]_vars /\ WF_vars(ChainStep)

\* C36: a resolution cycle that is in flight eventually reaches a terminal
\* outcome: a suggestion is presented, the turn ends, or an error is reported.
C36_CycleEnds ==
    (CyclesInFlight > 0) ~> (CyclesInFlight = 0)

\* C37: every occurrence of a catalog name between word boundaries is
\* recorded as a potential match; for 'Power + Power' and the entry Power
\* both occurrences are accepted and the suggestion is a combo.
C37_EveryOccurrence ==
    confirmedMatches # Unset =>
        LET cleaned == CleanedDescription(suggestedText)
            potentialMatches == PotentialMatches(masterItemList, cleaned)
        IN /\ \A k \in 1..Len(masterItemList) :
                  \A i \in Occurrences(ToLowerCase(cleaned), ToLowerCase(masterItemList[k].name)) :
                      \E j \in 1..Len(potentialMatches) :
                          /\ potentialMatches[j].uuid = masterItemList[k].uuid
                          /\ potentialMatches[j].startIndex = i
           /\ (suggestedText = PowerPlusPower /\ Len(masterItemList) = 1
                   /\ masterItemList[1].name = Power)
                  => /\ Len(confirmedMatches.list) = 2
                     /\ OverallResult(suggestedText, masterItemList).isCombo

(***************************************************************************)
(* The Flurry of Blows rule of identifySuggestionTypeAndCost.  In          *)
(* SpecFlurry masterItemList holds gameState.self.strikes (the master list *)
(* is compiled from them); bonus and damage stand for parseBaseBonus of    *)
(* the strike's bonuses and estimateAverageDamage of its damage.           *)
(***************************************************************************)
FlurryOfBlows == <<"F", "l", "u", "r", "r", "y", " ", "o", "f", " ", "B", "l", "o", "w", "s">>

FlurryStrike(name, n, traits, bonus, damage) ==
    [name |-> name, uuid |-> <<"s", n>>, type |-> "strike", traits |-> traits, cost |-> Null,
     bonus |-> bonus, damage |-> damage]

\* A variant that takes only unarmed strikes.
IsEligibleUnarmedOnly(s) == "unarmed" \in s.traits
\* s.traits?.includes('unarmed') || s.traits?.includes('monk')
IsEligible(s) == "unarmed" \in s.traits \/ "monk" \in s.traits

EligibleStrikes(strikes) == SelectSeq(strikes, IsEligible)

\* eligibleStrikes[0] after the (stable) sort: higher bonus first, then higher
\* average damage.
BestEligibleStrike(eligible) ==
    LET better(a, b) == a.bonus > b.bonus \/ (a.bonus = b.bonus /\ a.damage > b.damage)
    IN eligible[Min({k \in 1..Len(eligible) :
                        \A j \in 1..Len(eligible) : ~better(eligible[j], eligible[k])})]

FlurryResult(bestEligibleStrike) ==
    [isStrikeSuggestion |-> TRUE,
     strikeNameForButton |-> bestEligibleStrike.name,
     actualActionCost |-> Num(1),
     costSource |-> "Flurry of Blows Rule",
     traits |-> {"attack", "flurry"} \cup bestEligibleStrike.traits,
     isCombo |-> FALSE,
     modifiedDescriptionWithActionLink |->
         FlurryOfBlows \o <<" ", "(", "u", "s", "i", "n", "g", " ">> \o bestEligibleStrike.name \o <<")">>]

\* The result of the generic matching, with the fields of the special case.
GenericResult(text, list) ==
    LET overallResult == OverallResult(text, list)
        ms == ConfirmedMatches(text, list)
        isFlurry == ToLowerCase(PrimaryActionName(CleanedDescription(text))) = ToLowerCase(FlurryOfBlows)
    IN [isStrikeSuggestion |-> PrimaryActionInfo(ms) # Null
                                 /\ EntryOf(PrimaryActionInfo(ms).uuid, list).type = "strike",
        strikeNameForButton |-> IF PrimaryActionInfo(ms) # Null
                                THEN EntryOf(PrimaryActionInfo(ms).uuid, list).name ELSE <<>>,
        actualActionCost |-> overallResult.actualActionCost,
        costSource |-> overallResult.costSource,
        traits |-> overallResult.traits,
        isCombo |-> ~isFlurry /\ overallResult.isCombo,
        modifiedDescriptionWithActionLink |-> overallResult.modifiedDescriptionWithActionLink]

\* identifySuggestionTypeAndCost with the special case in front.
IdentifyWithStrikes(text, strikes, list) ==
    LET primaryActionNameLower == ToLowerCase(PrimaryActionName(CleanedDescription(text)))
    IN IF primaryActionNameLower = ToLowerCase(FlurryOfBlows) /\ EligibleStrikes(strikes) # <<>>
       THEN FlurryResult(BestEligibleStrike(EligibleStrikes(strikes)))
       ELSE GenericResult(text, list)

Fist == FlurryStrike(<<"F", "i", "s", "t">>, "1", {"unarmed", "agile"}, 10, 5)
Staff == FlurryStrike(<<"S", "t", "a", "f", "f">>, "2", {"monk"}, 10, 6)
Sword == FlurryStrike(<<"S", "w", "o", "r", "d">>, "3", {}, 12, 8)
StrikeLists ==
    {<<>>, <<Fist>>, <<Staff>>, <<Sword>>, <<Fist, Staff>>, <<Staff, Fist>>, <<Sword, Fist>>,
     <<Sword, Staff, Fist>>}

\* Descriptions whose primary action is Flurry of Blows, and others.
\* ('Flurry of Blows the goblin' is a name as a whole for the pattern.)
FlurryTexts ==
    {FlurryOfBlows, ToLowerCase(FlurryOfBlows) \o <<",", " ", "t", "h", "e", "n", " ", "S", "t", "r", "i", "d", "e">>,
     FlurryOfBlows \o <<" ", "+", " ", "S", "t", "r", "i", "k", "e">>, FlurryOfBlows \o <<",", " ", "t", "h", "e", " ", "g", "o", "b", "l", "i", "n">>}
OtherTexts == {FlurryOfBlows \o <<" ", "t", "h", "e", " ", "g", "o", "b", "l", "i", "n">>, <<"F", "i", "s", "t">>}

InitFlurry ==
    /\ InitTurn
    /\ audited = FALSE
    /\ capacity = MaxTasks
    /\ identifyResult = Null
    /\ llmCost \in LLMCostInputs
    /\ authoritativeCost = Unset
    /\ FormatIdle
    /\ ParseIdle
    /\ suggestedText \in FlurryTexts \cup OtherTexts
    /\ masterItemList \in StrikeLists
    /\ confirmedMatches = Unset
    /\ identifiedTraits = Unset
    /\ CallIdle
    /\ ChatIdle

\* requestNextAISuggestion: the description is identified ...
IdentifyFlurry ==
    /\ identifyResult = Null
    /\ identifyResult' = IdentifyWithStrikes(suggestedText, masterItemList, masterItemList)
    /\ UNCHANGED <<turnVars, llmCost, authoritativeCost, formatVars, parseVars, matchVars,
                   identifiedTraits, llmCall, chat>>

\* ... and its cost is arbitrated.
ArbitrateIdentified ==
    /\ identifyResult # Null
    /\ authoritativeCost = Unset
    /\ authoritativeCost' = DetermineAuthoritativeCost(identifyResult, llmCost)
    /\ UNCHANGED <<turnVars, identifyResult, llmCost, formatVars, parseVars, matchVars,
                   identifiedTraits, llmCall, chat>>

NextFlurry == IdentifyFlurry \/ ArbitrateIdentified

SpecFlurry == InitFlurry /\ [][NextFlurry]_vars

HasEligibleStrike ==
    \E k \in 1..Len(masterItemList) :
        masterItemList[k].traits \cap {"unarmed", "monk"} # {}

\* C38: a description whose primary action is Flurry of Blows, for an actor
\* with an eligible (unarmed or monk) strike, is identified as a Strike of
\* cost 1 that is no combo, by the rule and not by the generic matching, and
\* its arbitrated cost is 1 whatever cost the LLM stated.
C38_FlurryCostsOne ==
    (suggestedText \in FlurryTexts /\ HasEligibleStrike)
        => /\ identifyResult # Null
               => /\ identifyResult.isStrikeSuggestion
                  /\ identifyResult.actualActionCost = Num(1)
                  /\ ~identifyResult.isCombo
                  /\ identifyResult.costSource = "Flurry of Blows Rule"
                  /\ "attack" \in identifyResult.traits
                  /\ \E k \in 1..Len(masterItemList) :
                         /\ masterItemList[k].traits \cap {"unarmed", "monk"} # {}
                         /\ identifyResult.strikeNameForButton = masterItemList[k].name
           /\ authoritativeCost # Unset => authoritativeCost = Num(1)

\* C38 witness: 'Flurry of Blows + Strike' with a monk weapon as the only
\* eligible strike and an LLM cost of 2 has been arbitrated.
C38_Witness ==
    /\ suggestedText = FlurryOfBlows \o <<" ", "+", " ", "S", "t", "r", "i", "k", "e">>
    /\ masterItemList = <<Staff>>
    /\ llmCost = Num(2)
    /\ identifyResult # Null
    /\ authoritativeCost # Unset

(***************************************************************************)
(* handleChatMessage (the createChatMessage hook) and the Rend             *)
(* prerequisite.  It is the combatant's turn, Accept has stored the turn   *)
(* state, and attack rolls are posted to the chat; chat holds the roll     *)
(* messages and whether a Confirm of this turn has stored the id of its    *)
(* card in lastConfirmedActionMessageIds.                                  *)
(***************************************************************************)
MaxRolls == 2

Jaws == <<"J", "a", "w", "s">>
Gob == <<"G", "o", "b">>
Orc == <<"O", "r", "c">>

\* An attack-roll message: its speaker, context.outcome, the target's name,
\* the action name, and whether its id compares greater than a stored one
\* (the ids are random strings).
RollMessage(speaker, outcome, target, actionName, idGreater) ==
    [speaker |-> speaker, outcome |-> outcome, target |-> target, actionName |-> actionName,
     idGreater |-> idGreater]
RollMessages ==
    {RollMessage(sp, o, tg, a, g) :
        sp \in {AI, Other}, o \in {"success", "criticalSuccess", "failure"},
        tg \in {Gob, Orc}, a \in {Claw, Jaws}, g \in BOOLEAN}

\* context.outcome.toUpperCase()
OutcomeUpperCase(outcome) ==
    CASE outcome = "success" -> "SUCCESS"
      [] outcome = "criticalSuccess" -> "CRITICALSUCCESS"
      [] OTHER -> "FAILURE"

\* actor.getFlag(MODULE_ID, FLAGS.DESIGNATIONS): the module stores the
\* designations on the Combat document only and never sets this flag.
ActorDesignations == Unset

SuccessfulStrikesThisRound(ts) ==
    IF "successfulStrikesThisRound" \in DOMAIN ts THEN ts.successfulStrikesThisRound ELSE <<>>

\* The turn state after the message has been handled.
RecordedTurnState(ts, message, lastStored) ==
    LET isAiControlled == ActorDesignations = Str(<<"a", "i">>)
        isAfterLastAction == ~lastStored \/ message.idGreater
        outcome == OutcomeUpperCase(message.outcome)
        strike == [targetName |-> message.target, strikeName |-> message.actionName]
    IN IF /\ isAiControlled
          /\ isAfterLastAction
          /\ message.speaker = AI
          /\ outcome = "SUCCESS" \/ outcome = "CRITICAL SUCCESS"
          /\ ts # NoState
       THEN [f \in DOMAIN ts \cup {"successfulStrikesThisRound"} |->
                IF f = "successfulStrikesThisRound"
                THEN Append(SuccessfulStrikesThisRound(ts), strike)
                ELSE ts[f]]
       ELSE ts

\* relevantStrikesCount of the Rend check for the target.
RelevantStrikesCount(ts, rendTargetName) ==
    Cardinality({k \in 1..Len(SuccessfulStrikesThisRound(ts)) :
        /\ ToLowerCase(SuccessfulStrikesThisRound(ts)[k].targetName) = ToLowerCase(rendTargetName)
        /\ Includes(ToLowerCase(SuccessfulStrikesThisRound(ts)[k].strikeName), ToLowerCase(Claw))})

InitRend ==
    /\ current = AI
    /\ previous = Other
    /\ turnState = AcceptedTurnState
    /\ isProcessing = TRUE
    /\ cachedStrikes = TRUE
    /\ offerCard = FALSE
    /\ retryButton = FALSE
    /\ cards = {}
    /\ tasks = EmptyBag
    /\ pendingHooks = 0
    /\ event = Ev("none")
    /\ spent = 0
    /\ budget = -1
    /\ audited = FALSE
    /\ capacity = MaxTasks
    /\ identifyResult = Null
    /\ llmCost = Null
    /\ authoritativeCost = Unset
    /\ FormatIdle
    /\ ParseIdle
    /\ MatchIdle
    /\ CallIdle
    /\ chat \in {[messages |-> <<>>, lastStored |-> stored] : stored \in BOOLEAN}

\* An attack is rolled: the message is created and handleChatMessage runs.
HandleChatMessage ==
    \E message \in RollMessages :
        /\ chat # Unset
        /\ Len(chat.messages) < MaxRolls
        /\ chat' = [chat EXCEPT !.messages = Append(@, message)]
        /\ turnState' = RecordedTurnState(turnState, message, chat.lastStored)
        /\ event' = Ev("chatMessage")
        /\ UNCHANGED <<current, previous, isProcessing, cachedStrikes, offerCard, retryButton,
                       cards, tasks, pendingHooks, spent, budget, audited, capacity,
                       costVars, formatVars, parseVars, matchVars, identifiedTraits, llmCall>>

\* The LLM suggests 'Rend, <target>' and the request checks its prerequisite
\* on the turn state.
SuggestRend ==
    \E rendTargetName \in {Gob, Orc} :
        /\ chat # Unset
        /\ event.kind # "rendChecked"
        /\ event' = [kind |-> "rendChecked", target |-> rendTargetName,
                     passed |-> RelevantStrikesCount(turnState, rendTargetName) >= 2]
        /\ UNCHANGED <<current, previous, turnState, isProcessing, cachedStrikes, offerCard,
                       retryButton, cards, tasks, pendingHooks, spent, budget, audited,
                       capacity, pureVars>>

NextRend == HandleChatMessage \/ SuggestRend

SpecRend == InitRend /\ [][NextRend]_vars

\* The successful Claw strikes of the combatant against the target among the
\* rolls that were posted after the last confirmed card.
SuccessfulClaws(target) ==
    {k \in 1..Len(chat.messages) :
        /\ chat.messages[k].speaker = AI
        /\ chat.messages[k].outcome \in {"success", "criticalSuccess"}
        /\ chat.messages[k].target = target
        /\ chat.messages[k].actionName = Claw
        /\ chat.messages[k].idGreater}

\* C39: after two successful Claw strikes of the combatant against a target,
\* a 'Rend' suggested against that target passes the prerequisite check.
C39_RendAfterTwoClaws ==
    (event.kind = "rendChecked" /\ Cardinality(SuccessfulClaws(event.target)) >= 2)
        => event.passed

====
